---- MODULE Spec2Model ----
(***************************************************************************)
(* A model of ae5_tools/api.py: the session/authentication state machine   *)
(* (AESessionBase, AEUserSession, AEAdminSession) and the entity resolver   *)
(* (AEUserSession._id).                                                     *)
(*                                                                         *)
(* One user session ("usr", username alice) and one admin session ("adm")  *)
(* are modelled.  The remote platform is the environment: every HTTP        *)
(* response, every login verdict and every password typed at the prompt is *)
(* a nondeterministic input.  A method of the code is an operator that      *)
(* returns the SET of its possible runs, each a record [w, out]: the world *)
(* after the run and how the run ended (returned or raised).  An action of *)
(* the state machine is one public call, taken whole.                      *)
(***************************************************************************)
EXTENDS Integers, Sequences, FiniteSets, TLC

\* Token values issued by the platform cycle through 1..MaxTok.
MaxTok == 2
\* Passwords the caller types at the prompt before giving up (Ctrl-C).
MaxPrompts == 2

VARIABLES
    sess,     \* who -> session object ("usr": AEUserSession, "adm": AEAdminSession)
    srv,      \* the last token value the platform issued
    last,     \* the last public call: what was called, the state before, the run
    listing,  \* the entity listing the platform serves: its type and its records
    res,      \* the last entity resolution: its arguments and its result
    revisions, \* the revision list the platform serves for a project, newest first
    rres,     \* the last revision resolution: its arguments and its result
    feed,     \* the activity feed of the project, most recently updated first
    poll,     \* the operation that awaits an action: its position and its locals
    depstate, \* the state of the deployment on the platform
    dpl,      \* deployment_start: its position and its locals
    jobs,     \* the jobs the platform lists
    runs,     \* the runs the platform lists
    jc,       \* job_create: its position and its locals
    collabs,  \* the collaborator list the platform holds for one project or deployment
    edit,     \* caller -> collaborator add / remove: its position and its locals
    watch,    \* what a third party read of the collaborator list
    lst,      \* the last listing call: its arguments and the requests it sent
    norm,     \* the last call of _format_dataframe: its arguments and its result
    platform, \* the sessions or deployments, and the projects, the platform holds
    info,     \* the last session / deployment list or info call and its result
    cli,      \* the options object of the command line (ctx.obj) and the last call on it
    rst       \* deployment_restart: the two deployments, its position and its locals

vars == <<sess, srv, last, listing, res, revisions, rres, feed, poll, depstate, dpl,
          jobs, runs, jc, collabs, edit, watch, lst, norm,
          platform, info, cli, rst>>
sessionVars == <<sess, srv, last>>
resolverVars == <<listing, res>>
revisionVars == <<revisions, rres>>
pollerVars == <<feed, poll>>
deployVars == <<depstate, dpl>>
jobVars == <<jobs, runs, jc>>
\* The state of the entity operations and of the platform's entities
collabVars == <<collabs, edit, watch>>
\* The state of the library's other parts
joinVars == <<platform, info>>
otherVars == <<norm, joinVars, cli, rst>>
entityVars == <<jobVars, collabVars, lst, otherVars>>
\* The state of the operations built on the session and the resolver
opsVars == <<revisions, rres, feed, poll, depstate, dpl, entityVars>>
\* Everything but the entities
baseVars == <<sessionVars, resolverVars, revisionVars, pollerVars, deployVars>>

Who == {"usr", "adm"}
\* The username of the user session, and the users the admin impersonates.
Username == "alice"
Users == {Username}

-----------------------------------------------------------------------------
(* Values *)

NoData == [k |-> "None", tok |-> 0]      \* self._sdata = None
EmptyData == [k |-> "empty", tok |-> 0]  \* self._sdata = {}
TokData(t) == [k |-> "tok", tok |-> t]   \* a token response: access_token, refresh_token

Cookie(n, t, u) == [name |-> n, tok |-> t, user |-> u]
Header(n, t) == [name |-> n, tok |-> t]

NextTok(t) == (t % MaxTok) + 1

NoFile == [exists |-> FALSE, jar |-> {}, sdata |-> NoData]

Ret(val, body) == [kind |-> "ret", val |-> val, body |-> body, jar |-> {}]
RetJar(jar) == [kind |-> "ret", val |-> "cookies", body |-> "", jar |-> jar]
Raise(exc) == [kind |-> "raise", val |-> exc, body |-> "", jar |-> {}]
RaiseOn(exc, body) == [kind |-> "raise", val |-> exc, body |-> body, jar |-> {}]

Run(w, out) == [w |-> w, out |-> out]

\* An endpoint: its name and, for the impersonation calls, the target user.
Ep(name, user) == [name |-> name, user |-> user]

\* The world with session `who` replaced by s.
SetS(w, who, s) == [w EXCEPT !.s = [w.s EXCEPT ![who] = s]]
\* The world with one more event in the trace of the call.
Ev(w, who, kind, arg) == [w EXCEPT !.tr = Append(w.tr, <<who, kind, arg>>)]

-----------------------------------------------------------------------------
(* The per-class methods *)

\* A variant of _connected that takes any cookie for a credential
ConnectedAnyCookie(s) ==
    IF s.role = "user" THEN s.cookies # {} ELSE s.sdata.k = "tok"

\* AEUserSession._connected / AEAdminSession._connected
Connected(s) ==
    IF s.role = "user"
    THEN \E c \in s.cookies : c.name = "_xsrf"
    ELSE s.sdata.k = "tok"

\* AEUserSession._set_header / AEAdminSession._set_header: headers[name] = value
SetHeader(s) ==
    IF s.role = "user"
    THEN IF \E c \in s.cookies : c.name = "_xsrf"
         THEN LET c == CHOOSE c \in s.cookies : c.name = "_xsrf"
              IN [s EXCEPT !.headers =
                    {h \in s.headers : h.name # "x-xsrftoken"}
                    \cup {Header("x-xsrftoken", c.tok)}]
         ELSE s
    ELSE [s EXCEPT !.headers =
            {h \in s.headers : h.name # "Authorization"}
            \cup {Header("Authorization", s.sdata.tok)}]

\* AEUserSession._save / AEAdminSession._save
Save(s) ==
    IF s.role = "user"
    THEN [s EXCEPT !.file = [exists |-> TRUE, jar |-> s.cookies, sdata |-> NoData]]
    ELSE [s EXCEPT !.file = [exists |-> TRUE, jar |-> {}, sdata |-> s.sdata]]

\* AEUserSession._is_login; the base class's _is_login returns None.
IsLogin(s, resp) == s.role = "user" /\ resp = "login"

-----------------------------------------------------------------------------
(* The transport: one HTTP exchange *)

\* What the platform may answer, by the decisions the code takes on it:
\*   ok_json   status < 400, content-type json
\*   ok_text   status < 400, any other content type, no login form
\*   ok_empty  status < 400, no content
\*   login     status 200, text/html holding the form kc-form-login
\*   unauth    status 401
\*   error     any other status >= 400
Responses(s, ep) ==
    IF s.role = "user"
    THEN IF ep.name = "logout"
         THEN {"ok_text", "login", "unauth", "error"}
         ELSE {"ok_json", "ok_text", "ok_empty", "login", "unauth", "error"}
    ELSE IF ep.name = "call"
         THEN {"ok_json", "ok_text", "ok_empty", "unauth", "error"}
         ELSE {"ok_json", "unauth", "error"}

\* The cookies a successful response leaves in the session's jar.  The
\* impersonation endpoint and the OpenID redirect that follows it mint the
\* target user's cookies in the jar of the admin session that calls them.
Effect(w, who, ep, resp) ==
    LET s == w.s[who]
        ok == resp \notin {"unauth", "error"}
    IN IF who = "adm" /\ ok /\ ep.name = "impersonation"
       THEN SetS(w, who, [s EXCEPT !.cookies = @ \cup {Cookie("kc", 0, ep.user)}])
       ELSE IF who = "adm" /\ ok /\ ep.name = "oidc"
       THEN [SetS(w, who, [s EXCEPT !.cookies =
                    {c \in @ : c.name \notin {"sess", "_xsrf"}}
                    \cup {Cookie("sess", 0, ep.user),
                          Cookie("_xsrf", NextTok(w.srv), ep.user)}])
             EXCEPT !.srv = NextTok(w.srv)]
       ELSE w

\* getattr(self.session, method)(url, **kwargs)
Send(who, w, ep) ==
    { [w |-> Ev(Effect(Ev(w, who, "send", ep.name), who, ep, resp), who, "recv", resp),
       resp |-> resp] :
        resp \in Responses(w.s[who], ep) }

Formats == {"response", "blob", "text", "json", "dataframe", "none"}

\* AESessionBase._format_response, for a requests Response
FormatResponse(resp, fmt) ==
    IF fmt = "response" THEN Ret("response", resp)
    ELSE IF resp = "ok_empty" THEN Ret("None", resp)
    ELSE IF fmt = "blob" THEN Ret("content", resp)
    ELSE IF fmt = "text" THEN Ret("text", resp)
    ELSE IF resp = "ok_json"
         THEN IF fmt = "dataframe" THEN Ret("dataframe", resp) ELSE Ret("json", resp)
    ELSE IF fmt = "json" THEN RaiseOn("AEException: content type", resp)
    ELSE Ret("text", resp)

-----------------------------------------------------------------------------
(* AESessionBase._api, authorize, disconnect; AEAdminSession.impersonate *)

RECURSIVE Api(_, _, _, _)

\* AEAdminSession.user_info(user_or_id, format='json')
UserInfo(w, u) ==
    UNION { IF r.out.kind = "raise"
            THEN {r}
            ELSE {Run(r.w, Ret("record", u)), Run(r.w, Raise("ValueError: no user"))} :
            r \in Api("adm", w, Ep("users", u), "json") }

\* A variant of the finally clause that restores the headers only
ImpersonateFinallyKeepsJar(r, old_headers) ==
    Run(SetS(r.w, "adm", [r.w.s["adm"] EXCEPT !.headers = old_headers]), r.out)

\* The finally clause of impersonate
ImpersonateFinally(r, old_headers) ==
    Run(SetS(r.w, "adm", [r.w.s["adm"] EXCEPT !.cookies = {}, !.headers = old_headers]),
        r.out)

\* The try block of impersonate, from the state w the user lookup left
ImpersonateTry(w, u) ==
    UNION { IF p.out.kind = "raise"
            THEN {p}
            ELSE UNION { IF g.out.kind = "raise"
                         THEN {g}
                         ELSE {Run(SetS(g.w, "adm", [g.w.s["adm"] EXCEPT !.cookies = {}]),
                                   RetJar(g.w.s["adm"].cookies))} :
                         g \in Api("adm", p.w, Ep("oidc", u), "response") } :
            p \in Api("adm", w, Ep("impersonation", u), "response") }

\* AEAdminSession.impersonate(user_or_id)
Impersonate(w, u) ==
    UNION { IF i.out.kind = "raise"
            THEN {i}
            ELSE { ImpersonateFinally(r, i.w.s["adm"].headers) :
                     r \in ImpersonateTry(
                              [Ev(i.w, "adm", "snapshot", "")
                               EXCEPT !.snap = i.w.s["adm"].headers], u) } :
            i \in UserInfo(Ev(w, "adm", "impersonate", u), u) }

\* AEAdminSession._connect(password): one POST to the token endpoint, answered
\* with a token (status 200) or with status 401
AdmConnect(w) ==
    LET s == w.s["adm"]
    IN { Run([SetS(Ev(w, "adm", "connect", "accept"), "adm",
                   [s EXCEPT !.sdata = TokData(NextTok(w.srv))])
              EXCEPT !.srv = NextTok(w.srv)], Ret("", "")),
         Run(SetS(Ev(w, "adm", "connect", "reject"), "adm",
                  [s EXCEPT !.sdata = EmptyData]), Ret("", "")) }

\* AEUserSession._connect(password)
UsrConnect(w) ==
    LET s == w.s["usr"]
        w1 == Ev(w, "usr", "connect", "impersonate")
    IN IF s.password = "admin"
       THEN \* the trace of the user's call keeps the user session's own events
            { LET j == Run([i.w EXCEPT !.tr = w1.tr, !.snap = w1.snap], i.out)
              IN IF j.out.kind = "raise"
                 THEN j
                 ELSE Run(SetS(j.w, "usr", [j.w.s["usr"] EXCEPT !.cookies = j.out.jar]),
                          Ret("", "")) :
              i \in Impersonate(w1, Username) }
       ELSE { \* no login form: already logged in, apparently
              Run(Ev(w, "usr", "connect", "noform"), Ret("", "")),
              \* the form is posted and the password is rejected
              Run(SetS(Ev(w, "usr", "connect", "reject"), "usr",
                       [s EXCEPT !.cookies = {}]), Ret("", "")),
              \* the form is posted and the platform sets the session cookies
              Run([SetS(Ev(w, "usr", "connect", "accept"), "usr",
                        [s EXCEPT !.cookies =
                            {c \in @ : c.name \notin {"sess", "_xsrf"}}
                            \cup {Cookie("sess", 0, Username),
                                  Cookie("_xsrf", NextTok(w.srv), Username)}])
                   EXCEPT !.srv = NextTok(w.srv)], Ret("", "")) }

Connect(who, w) == IF who = "usr" THEN UsrConnect(w) ELSE AdmConnect(w)

\* authorize(), lines 133-137: the session is marked connected
AuthorizeFinish(who, w) ==
    LET s == w.s[who]
        w1 == Ev(w, who, "authorized", "")
    IN IF Connected(s)
       THEN LET s1 == SetHeader([s EXCEPT !.connected = TRUE])
            IN IF s.persist
               THEN SetS(Ev(w1, who, "save", "login"), who, Save(s1))
               ELSE SetS(w1, who, s1)
       ELSE w

\* Variants of the test of line 130: a supplied password is tried a second
\* time before the loop gives up; the loop gives up on a prompted password too
GivesUpAfterRetry(need_password, n) == ~need_password /\ n >= 1
GivesUpAlways(need_password, n) == TRUE

\* authorize(), lines 130-131: after a login that left no credential, and n
\* earlier failed logins, the loop gives up with 'Invalid username or password.'
GivesUp(need_password, n) == ~need_password

RECURSIVE AuthLoop(_, _, _, _)
\* authorize(), the loop of lines 122-132; n passwords were prompted so far.
\* _password_prompt returns a non-empty password or the caller aborts it.
AuthLoop(who, w, last_valid, n) ==
    LET need_password == w.s[who].password = "none"
        Attempt(w1) ==
            UNION { IF c.out.kind = "raise" THEN {c}
                    ELSE IF Connected(c.w.s[who])
                    THEN {Run(AuthorizeFinish(who, Ev(c.w, who, "login", "valid")),
                              Ret("", ""))}
                    ELSE IF GivesUp(need_password, n)
                    THEN {Run(Ev(c.w, who, "login", "invalid"),
                              Raise("AEException: invalid"))}
                    ELSE AuthLoop(who, Ev(c.w, who, "login", "invalid"), FALSE, n + 1) :
                    c \in Connect(who, w1) }
        prompted == Ev(w, who, "prompt",
                       IF last_valid THEN "first" ELSE "invalid, try again")
    IN IF need_password
       THEN {Run(Ev(prompted, who, "abort", ""), Raise("KeyboardInterrupt"))}
            \cup (IF n < MaxPrompts THEN Attempt(prompted) ELSE {})
       ELSE Attempt(w)

\* AESessionBase.authorize
Authorize(who, w) == AuthLoop(who, Ev(w, who, "authorize", ""), TRUE, 0)

\* A variant of line 217 that raises for no status but 401
ApiFinalUnauthorizedOnly(x, fmt) ==
    IF x.resp = "unauth"
    THEN Run(x.w, RaiseOn("AEUnexpectedResponseError", x.resp))
    ELSE Run(x.w, FormatResponse(x.resp, fmt))

\* lines 217-219 of _api: the final response of the request
ApiFinal(x, fmt) ==
    IF x.resp \in {"unauth", "error"}
    THEN Run(x.w, RaiseOn("AEUnexpectedResponseError", x.resp))
    ELSE Run(x.w, FormatResponse(x.resp, fmt))

\* A variant of the test of line 214 that holds after every response
ApiNeedsAuthAlways(s, resp) == TRUE

\* lines 214-216 of _api: whether the request authorizes and sends again
ApiNeedsAuth(s, resp) == ~s.connected \/ resp = "unauth" \/ IsLogin(s, resp)

\* AESessionBase._api
Api(who, w, ep, fmt) ==
    LET first == IF w.s[who].connected
                 THEN Send(who, w, ep)
                 ELSE {[w |-> w, resp |-> "none"]}
        Step(x) ==
            IF ApiNeedsAuth(x.w.s[who], x.resp)
            THEN UNION { IF a.out.kind = "raise"
                         THEN {a}
                         ELSE {ApiFinal(y, fmt) : y \in Send(who, a.w, ep)} :
                         a \in Authorize(who, x.w) }
            ELSE {ApiFinal(x, fmt)}
    IN UNION {Step(x) : x \in first}

\* AEUserSession._disconnect / AEAdminSession._disconnect
DisconnectImpl(who, w) ==
    LET s == w.s[who]
    IN IF who = "usr"
       THEN Api("usr", w, Ep("logout", ""), "response")
       ELSE IF s.sdata.k = "None"
            THEN {Run(w, Raise("AttributeError"))}
            ELSE {Run(SetS(w, who, [s EXCEPT !.sdata = EmptyData]), Ret("", ""))}

\* disconnect(), lines 141-145, after _disconnect returned
DisconnectLocal(who, w) ==
    LET s == w.s[who]
        s1 == [s EXCEPT !.headers = {}, !.cookies = {}]
        w1 == Ev(w, who, "clear", "")
        s2 == IF s.persist THEN Save(s1) ELSE s1
        w2 == IF s.persist THEN Ev(w1, who, "save", "cleared") ELSE w1
    IN SetS(w2, who, [s2 EXCEPT !.connected = FALSE])

\* AESessionBase.disconnect
Disconnect(who, w) ==
    { IF d.out.kind = "raise" THEN d ELSE Run(DisconnectLocal(who, d.w), Ret("", "")) :
        d \in DisconnectImpl(who, Ev(w, who, "disconnect", "")) }

-----------------------------------------------------------------------------
(* AEUserSession._id: entity resolution *)

\* A string is a sequence of characters; the empty string stands for a
\* field that is None or absent (both are false in `x or '*'`).
Star == <<"*">>

RECURSIVE fnmatch(_, _)
\* fnmatch.fnmatch(name, pat) with the wildcards * and ?
fnmatch(name, pat) ==
    IF pat = <<>> THEN name = <<>>
    ELSE IF Head(pat) = "*"
         THEN fnmatch(name, Tail(pat)) \/ (name # <<>> /\ fnmatch(Tail(name), pat))
    ELSE /\ name # <<>>
         /\ (Head(pat) = "?" \/ Head(pat) = Head(name))
         /\ fnmatch(Tail(name), Tail(pat))

\* Identifier.id_type: the entity type an id belongs to, read off its prefix
IdType(id) ==
    IF Head(id) = "a0" THEN "projects"
    ELSE IF Head(id) = "a1" THEN "sessions"
    ELSE IF Head(id) = "a2" THEN "deployments"
    ELSE "unknown"

\* str(Identifier.from_record(r, True)): the record as owner/name/id
FromRecord(r) == <<r.owner, r.name, r.id>>

NoRec == [owner |-> <<>>, name |-> <<>>, id |-> <<>>, has_pid |-> FALSE,
          project_id |-> <<>>]
NoMsg == [pfx |-> "", type |-> "", triple |-> <<>>, candidates |-> <<>>]

\* The result of _id: the pair returned or the exception raised, with the
\* matches the loop collected and whether the listing was fetched
IdRet(id, rec, matches) ==
    [kind |-> "ret", exc |-> "", none |-> FALSE, id |-> id, rec |-> rec,
     msg |-> NoMsg, matches |-> matches, fetched |-> FALSE]
IdNone(matches) ==
    [kind |-> "ret", exc |-> "", none |-> TRUE, id |-> <<>>, rec |-> NoRec,
     msg |-> NoMsg, matches |-> matches, fetched |-> FALSE]
IdRaise(exc, msg, matches) ==
    [kind |-> "raise", exc |-> exc, none |-> FALSE, id |-> <<>>, rec |-> NoRec,
     msg |-> msg, matches |-> matches, fetched |-> FALSE]
\* line 310, line 360: the listing has been asked of the platform
WithListing(out) == [out EXCEPT !.fetched = TRUE]

\* line 300
Tval(type) == IF type \in {"jobs", "runs"} THEN "deployments" ELSE type
\* line 301
IdTypeOf(type, ident) == IF ident.id # <<>> THEN IdType(ident.id) ELSE Tval(type)

\* rec.get('project_id', '')
ProjectId(rec) == IF rec.has_pid THEN rec.project_id ELSE <<>>

\* A variant of lines 311-313 that applies the pid to projects too
PatternsPidAlways(type, ident) ==
    [owner |-> IF ident.owner # <<>> THEN ident.owner ELSE Star,
     name |-> IF ident.name # <<>> THEN ident.name ELSE Star,
     id |-> IF ident.id # <<>> /\ Tval(type) = IdTypeOf(type, ident)
            THEN ident.id ELSE Star,
     pid |-> IF ident.pid # <<>> THEN ident.pid ELSE Star]

\* lines 311-313: the four patterns
Patterns(type, ident) ==
    [owner |-> IF ident.owner # <<>> THEN ident.owner ELSE Star,
     name |-> IF ident.name # <<>> THEN ident.name ELSE Star,
     id |-> IF ident.id # <<>> /\ Tval(type) = IdTypeOf(type, ident)
            THEN ident.id ELSE Star,
     pid |-> IF ident.pid # <<>> /\ type # "projects" THEN ident.pid ELSE Star]

\* lines 315-316
Matches(rec, pat) ==
    /\ fnmatch(rec.owner, pat.owner)
    /\ fnmatch(rec.name, pat.name)
    /\ fnmatch(rec.id, pat.id)
    /\ fnmatch(ProjectId(rec), pat.pid)

\* A variant of lines 318-330 that returns the first of several matches
IdResultFirst(type, pat, quiet, matches) ==
    IF Len(matches) >= 1
    THEN IdRet(matches[1].id, matches[1], matches)
    ELSE IF quiet
    THEN IdRaise("TypeError", NoMsg, matches)
    ELSE IdRaise("ValueError",
                 [pfx |-> "No", type |-> type,
                  triple |-> <<pat.owner, pat.name, pat.id>>,
                  candidates |-> <<>>],
                 matches)

\* lines 318-330, with the matches collected: the value returned
IdResult(type, pat, quiet, matches) ==
    IF Len(matches) = 1
    THEN IdRet(matches[1].id, matches[1], matches)
    ELSE IF quiet
    \* id, rec = None, None; then `return rec['id'], rec` subscripts None
    THEN IdRaise("TypeError", NoMsg, matches)
    ELSE IdRaise("ValueError",
                 [pfx |-> IF Len(matches) > 0 THEN "Multiple" ELSE "No",
                  type |-> type,
                  triple |-> <<pat.owner, pat.name, pat.id>>,
                  candidates |-> [i \in 1..Len(matches) |-> FromRecord(matches[i])]],
                 matches)

\* A variant of _id that checks the type of the id once it has the listing
IdChecksLate(type, ident, quiet, records) ==
    IF IdTypeOf(type, ident) \notin {"projects", Tval(type)}
    THEN WithListing(IdRaise("ValueError: ID type", NoMsg, <<>>))
    ELSE LET pat == Patterns(type, ident)
             matches == SelectSeq(records, LAMBDA rec : Matches(rec, pat))
         IN WithListing(IdResult(type, pat, quiet, matches))

\* AEUserSession._id(type, ident, quiet) over the listing `records`
Id(type, ident, quiet, records) ==
    IF IdTypeOf(type, ident) \notin {"projects", Tval(type)}
    THEN IdRaise("ValueError: ID type", NoMsg, <<>>)
    ELSE LET pat == Patterns(type, ident)
             matches == SelectSeq(records, LAMBDA rec : Matches(rec, pat))
         IN WithListing(IdResult(type, pat, quiet, matches))

\* line 363, line 366: whether the record matches by id or name, by id
ByIdOrName(rec, has_id, ident) ==
    (has_id /\ fnmatch(rec.id, ident)) \/ fnmatch(rec.name, ident)
ById(rec, ident) == fnmatch(rec.id, ident)

\* lines 379-382: a match as the error message lists it
Candidate(has_id, r) == IF has_id THEN <<r.id, r.name>> ELSE <<r.name>>

\* line 360 calls <type>_list(format='json', internal=True): sample_list
\* (line 427) takes no such argument, the other three (400, 416, 669) do
ListTakesInternal(type) == type # "sample"

\* AEUserSession._id_or_name(type, ident, quiet), lines 358-385, over the
\* listing `records`; a record without an id has the id <<>>
IdOrName(type, ident, quiet, records) ==
    LET has_id == \E i \in DOMAIN records : records[i].id # <<>>
        all == SelectSeq(records, LAMBDA rec : ByIdOrName(rec, has_id, ident))
        attempt == SelectSeq(all, LAMBDA rec : ById(rec, ident))
        matches == IF Len(all) > 1 /\ has_id /\ Len(attempt) = 1 THEN attempt ELSE all
    IN IF ~ListTakesInternal(type)
       THEN IdRaise("TypeError", NoMsg, <<>>)
       ELSE IF Len(matches) = 1
       THEN WithListing(IdRet(IF matches[1].id # <<>> THEN matches[1].id ELSE matches[1].name,
                          matches[1], matches))
       ELSE IF quiet THEN WithListing(IdNone(matches))
       ELSE WithListing(IdRaise("ValueError",
                    [pfx |-> IF Len(matches) > 0 THEN "Multiple" ELSE "No",
                     type |-> type, triple |-> ident,
                     candidates |-> [i \in 1..Len(matches) |-> Candidate(has_id, matches[i])]],
                    matches))

NoListing == [type |-> "projects", records |-> <<>>]
NoRes == [type |-> "", ident |-> [owner |-> <<>>, name |-> <<>>, id |-> <<>>, pid |-> <<>>],
          quiet |-> FALSE, out |-> IdNone(<<>>)]

-----------------------------------------------------------------------------
(* AEUserSession._revision: the revision of a resolved project *)

Latest == <<"latest">>
\* A revision record of the platform; None is NoRev
RevRec(name) == [name |-> name]
NoRev == [name |-> <<>>]
NoRevMsg == [pfx |-> "", pattern |-> <<>>, candidates |-> <<>>]

\* The result of _revision: the tuple (id, rev, prec, rrec) returned or the
\* exception raised, with the matches collected
RevRet(id, rev, prec, has_rrec, rrec, matches) ==
    [kind |-> "ret", exc |-> "", id |-> id, rev |-> rev, prec |-> prec,
     has_rrec |-> has_rrec, rrec |-> rrec, msg |-> NoRevMsg, matches |-> matches]
RevRaise(exc, msg, matches) ==
    [kind |-> "raise", exc |-> exc, id |-> <<>>, rev |-> <<>>, prec |-> NoRec,
     has_rrec |-> FALSE, rrec |-> NoRev, msg |-> msg, matches |-> matches]

\* The owner, name, id and pid of an identifier, as _id reads them
IdentOfProject(ident) ==
    [owner |-> ident.owner, name |-> ident.name, id |-> ident.id, pid |-> ident.pid]

\* line 339: no revision, or the revision 'latest'
IsLatest(ident) == ident.revision = <<>> \/ ident.revision = Latest

\* A variant of line 340 that takes the last element of the list
LatestMatchesLast(revs) == <<revs[Len(revs)]>>

\* line 340: matches = [revisions[0]]
LatestMatches(revs) == <<revs[1]>>

\* lines 342-345: the revisions whose name the pattern matches
PatternMatches(revs, pattern) ==
    SelectSeq(revs, LAMBDA response : fnmatch(response.name, pattern))

\* lines 346-356, with the matches collected
RevisionResult(ident, keep_latest, quiet, p, matches) ==
    IF Len(matches) = 1
    THEN RevRet(p.id,
                IF ~keep_latest \/ ~IsLatest(ident) THEN matches[1].name ELSE <<>>,
                p.rec, TRUE, matches[1], matches)
    ELSE IF ~quiet
    THEN IF Len(matches) > 0
         \* line 354 joins the revision records, which are dicts, as strings
         THEN RevRaise("TypeError", NoRevMsg, matches)
         ELSE RevRaise("ValueError",
                       [pfx |-> "No", pattern |-> ident.revision, candidates |-> <<>>],
                       matches)
    ELSE RevRet(p.id, <<>>, p.rec, FALSE, NoRev, matches)

\* AEUserSession._revision(ident, keep_latest, quiet) over the project listing
\* `records`; the GET of the revision list returns `revs` or raises
Revision(ident, keep_latest, quiet, records, revs, fetch) ==
    LET p == Id("projects", IdentOfProject(ident), quiet, records)
    IN IF p.kind = "raise" THEN RevRaise(p.exc, NoRevMsg, <<>>)
       ELSE IF p.none THEN RevRet(<<>>, <<>>, NoRec, FALSE, NoRev, <<>>)
       ELSE IF fetch = "raise" THEN RevRaise("AEUnexpectedResponseError", NoRevMsg, <<>>)
       ELSE IF IsLatest(ident)
       THEN IF revs = <<>>
            THEN RevRaise("IndexError", NoRevMsg, <<>>)
            ELSE RevisionResult(ident, keep_latest, quiet, p, LatestMatches(revs))
       ELSE RevisionResult(ident, keep_latest, quiet, p,
                           PatternMatches(revs, ident.revision))

NoRevisions == <<>>
NoRres == [ident |-> [owner |-> <<>>, name |-> <<>>, id |-> <<>>, pid |-> <<>>,
                      revision |-> <<>>],
           keep_latest |-> FALSE, quiet |-> FALSE, fetch |-> "",
           out |-> RevRet(<<>>, <<>>, NoRec, FALSE, NoRev, <<>>)]

-----------------------------------------------------------------------------
(* AEUserSession._wait, project_upload, session_start: awaiting an action *)

\* The polls whose page size is remembered.
MaxPolls == 4

\* A status record of the activity feed
Status(id, done, error, message) ==
    [id |-> id, done |-> done, error |-> error, message |-> message]
NoStatus == Status("", FALSE, FALSE, "")
\* The awaited action: pending, completed, or failed with the server's message
Pending == Status("act", FALSE, FALSE, "")
Done == Status("act", TRUE, FALSE, "")
Failed == Status("act", FALSE, TRUE, "boom")
TargetStates == {Pending, Done, Failed}
\* Activity of the project that is not the awaited action
Other == Status("other", TRUE, FALSE, "")

\* line 546: the loop goes on
Waiting(status) == ~status.done /\ ~status.error

\* A variant of line 548 that always asks for one entry
PageSizeOne(index) == 1

\* A variant of line 548 that asks for two more entries after each miss
PageSizeTwice(index) == 2 * index + 1

\* line 548: 'page[size]': index + 1
PageSize(index) == index + 1

\* What the platform returns for sort=-updated and that page size
Page(entries, size) ==
    SubSeq(entries, 1, IF size < Len(entries) THEN size ELSE Len(entries))

\* line 551: whether the generator finds a status with the id, and the first
\* one it finds
Found(page, id) == \E i \in DOMAIN page : page[i].id = id
\* A variant of line 551 that takes the first status of the page
FirstAny(page, id) == page[1]
First(page, id) ==
    page[CHOOSE i \in DOMAIN page :
            page[i].id = id /\ \A j \in DOMAIN page : page[j].id = id => i <= j]

\* A variant of the fetch of line 549 inside which errors are swallowed
FetchFailedNever(r) == FALSE

\* line 549: the exception that _get raises leaves _wait
FetchFailed(r) == r.out.kind = "raise"

\* A variant of the last lines that drops the session's cookies on an error
FinishClearsCookies(op, w, action) ==
    IF action.error
    THEN Run(SetS(w, "usr", [w.s["usr"] EXCEPT !.cookies = {}]),
             RaiseOn("RuntimeError", action.message))
    ELSE Run(w, Ret("record", ""))

\* project_upload, lines 578-580, and session_start, lines 642-644: the
\* awaited action decides between the record and the error
Finish(op, w, action) ==
    IF action.error
    THEN Run(w, RaiseOn(IF op = "project_upload"
                        THEN "RuntimeError: Error processing upload"
                        ELSE "RuntimeError: Error completing session start",
                        action.message))
    ELSE Run(w, Ret("record", ""))

\* The response of the last exchange of a request
LastRecv(tr) ==
    LET recvs == {i \in DOMAIN tr : tr[i][2] = "recv"}
    IN IF recvs = {} THEN "none"
       ELSE tr[CHOOSE i \in recvs : \A j \in recvs : j <= i][3]

\* A request with format='json' whose result the caller subscripts: a
\* response without content gives None, and subscripting None raises
GetJson(w, ep) ==
    { IF r.out.kind = "ret" /\ r.out.val # "json"
      THEN Run(r.w, Raise("TypeError: NoneType"))
      ELSE r :
      r \in Api("usr", w, ep, "json") }

\* The requests of an operation up to the response to its POST.
\* session_start resolves the project first: it fetches the listing and finds
\* one project or raises.  deployment_start resolves the revision first: the
\* listing, then the revision list, in which it finds one revision or raises.
Submit(op, w) ==
    LET post(w1) == GetJson(w1, Ep(op, ""))
        revision(w1) ==
            UNION { IF v.out.kind = "raise" THEN {v}
                    ELSE {Run(v.w, Raise("ValueError"))} \cup post(v.w) :
                    v \in GetJson(w1, Ep("revisions", "")) }
        after_id(w1) == IF op = "deployment_start" THEN revision(w1) ELSE post(w1)
    IN IF op \in {"session_start", "deployment_start"}
       THEN UNION { IF l.out.kind = "raise" THEN {l}
                    ELSE {Run(l.w, Raise("ValueError"))} \cup after_id(l.w) :
                    l \in GetJson(w, Ep("projects", "")) }
       ELSE post(w)

NoPoll == [pc |-> "idle", op |-> "", wait |-> FALSE, given |-> NoStatus,
           status |-> NoStatus, index |-> 0, polls |-> 0, sizes |-> <<>>,
           seen |-> "none", resp |-> "none", waited |-> FALSE,
           after |-> {}, out |-> Ret("", "")]

-----------------------------------------------------------------------------
(* AEUserSession.deployment_start *)

\* The states of a deployment; "failed" stands for every state other than
\* 'initial', 'starting' and 'started'
DepStates == {"initial", "starting", "started", "failed"}

\* A variant of line 758 that waits in the state 'initial' only
DeployWaitingInitial(wait, state) == wait /\ state = "initial"

\* line 758: the loop goes on
DeployWaiting(wait, state) == wait /\ state \in {"initial", "starting"}

\* lines 761-764: the state reached decides between the record and the error
DeployFinish(w, wait, state) ==
    IF wait /\ state # "started"
    THEN Run(w, RaiseOn("RuntimeError: Error completing deployment start", state))
    ELSE Run(w, Ret("record", state))

NoDeployment == "none"
NoDpl == [pc |-> "idle", wait |-> FALSE, submitted |-> FALSE, first |-> "",
          state |-> "", fetches |-> 0, seen |-> "none", out |-> Ret("", "")]

-----------------------------------------------------------------------------
(* AEUserSession.job_create *)

\* The most jobs, and the most runs of deleted jobs, the platform lists
\* before job_create is called
MaxJobs == 2
MaxRuns == 1

\* A name is a sequence: the base name '<command>-<project name>', and
\* '<bname>-<counter>', the name with one more element
Base == <<"run-proj">>
Suffixed(bname, counter) == Append(bname, counter)
NoName == <<>>
\* The names the jobs and runs on the platform may have
NamePool == {Base, <<"x">>} \cup {Suffixed(Base, k) : k \in 1..MaxJobs}

Job(id, name) == [id |-> id, name |-> name]
RunRec(job, name, state) == [job |-> job, name |-> name, state |-> state]
RunStates == {"running", "completed", "error"}
\* The id the platform gives the job it creates, and the ids of the others
NewId == MaxJobs + 3
Rank(name) == IF Len(name) = 2 THEN name[2] + 2 ELSE IF name = Base THEN 2 ELSE 1

\* A request of an entity operation, sent through _api: it is answered with
\* what was asked for, or it raises
RequestFailed == Raise("AEUnexpectedResponseError")

\* lines 839-840: the names of the jobs and of the runs
NamesOf(js, rs) == {j.name : j \in js} \cup {r.name : r \in rs}

\* A variant of line 843 that stops one counter short
CountersShort(jnames) == 1..(Cardinality(jnames) - 1)

\* line 843: range(1, len(jnames) + 1)
Counters(jnames) == 1..Cardinality(jnames)

\* lines 841-846: the name, or the name with the first counter that makes it
\* free; a loop that finds none ends with the last name it tried
UniqueName(name, jnames) ==
    IF name \notin jnames THEN name
    ELSE LET free == {k \in Counters(jnames) : Suffixed(name, k) \notin jnames}
         IN IF free # {}
            THEN Suffixed(name, CHOOSE k \in free : \A j \in free : k <= j)
            ELSE IF Counters(jnames) = {} THEN name
            ELSE Suffixed(name, CHOOSE k \in Counters(jnames) :
                                    \A j \in Counters(jnames) : j <= k)

\* A variant of line 864 that never waits
JobWaitingNever(state) == FALSE

\* line 864: the loop goes on
JobWaiting(state) == state \notin {"completed", "error"}

NoJc == [pc |-> "idle", name |-> NoName, schedule |-> FALSE, run |-> FALSE,
         wait |-> FALSE, cleanup |-> FALSE, jobs0 |-> {}, runs0 |-> {},
         fetched |-> FALSE, jnames |-> {}, posted |-> NoName, created |-> FALSE,
         state |-> "", fetches |-> 0, delstate |-> "", log |-> <<>>,
         out |-> Ret("", "")]

\* job_create made one more request
Log(j, req) == [j EXCEPT !.log = Append(@, req)]
\* job_create ended
JobEnded(j, out) == [j EXCEPT !.pc = "done", !.out = out]
JobOutcome(j, js, rs) == [jc |-> j, jobs |-> js, runs |-> rs]

\* The run of the job that job_create made
OwnRun(rs) == CHOOSE r \in rs : r.job = NewId

\* lines 867-871, after the loop: the job is deleted if cleanup is set
JobCleanup(j, js, rs) ==
    IF j.run /\ j.wait /\ j.cleanup
    THEN LET d == [Log(j, "delete job") EXCEPT !.delstate = OwnRun(rs).state]
         IN { JobOutcome(JobEnded(d, RequestFailed), js, rs),
              JobOutcome(JobEnded(d, Ret("record", "")),
                         {x \in js : x.id # NewId}, rs) }
    ELSE { JobOutcome(JobEnded(j, Ret("record", "")), js, rs) }

\* lines 863-871, with the state of the run just read
JobAwait(j, js, rs, state) ==
    LET k == [j EXCEPT !.state = state]
    IN IF j.wait /\ JobWaiting(state)
       THEN { JobOutcome([k EXCEPT !.pc = "loop"], js, rs) }
       ELSE JobCleanup(k, js, rs)

\* lines 857-871: the job is posted with the name; the platform refuses it,
\* or creates it, and with autorun set starts a run of it in some state
JobPost(j, js, rs, name) ==
    LET p == [Log(j, "post job") EXCEPT !.posted = name]
        made(st) ==
            LET c == [p EXCEPT !.created = TRUE]
                js1 == js \cup {Job(NewId, name)}
                rs1 == IF j.run THEN rs \cup {RunRec(NewId, name, st)} ELSE rs
            IN IF j.run
               THEN { JobOutcome(JobEnded(Log(c, "get job runs"), RequestFailed), js1, rs1) }
                    \cup JobAwait(Log(c, "get job runs"), js1, rs1, st)
               ELSE { JobOutcome(JobEnded(c, Ret("record", "")), js1, rs1) }
    IN { JobOutcome(JobEnded(p, RequestFailed), js, rs),
         JobOutcome(JobEnded(p, Raise("RuntimeError: Error starting job")), js, rs) }
       \cup UNION { made(st) : st \in IF j.run THEN RunStates ELSE {""} }

\* A variant of lines 825-828 that lets a schedule pass
ArgumentErrorUnscheduled(schedule, run, wait, cleanup) ==
    IF cleanup /\ (~run \/ ~wait)
    THEN "ValueError: cleanup without run and wait"
    ELSE ""

\* lines 825-828: the message of the ValueError the arguments give, or ""
ArgumentError(schedule, run, wait, cleanup) ==
    IF cleanup /\ schedule
    THEN "ValueError: cleanup with a scheduled job"
    ELSE IF cleanup /\ (~run \/ ~wait)
    THEN "ValueError: cleanup without run and wait"
    ELSE ""

\* lines 829-871: the revision is resolved, the name is made up if none was
\* given, and the job is posted
JobSubmit(j, js, rs) ==
    LET r == Log(j, "revision")
        g1 == Log(r, "get jobs")
        g2 == Log(g1, "get runs")
        named == [g2 EXCEPT !.fetched = TRUE, !.jnames = NamesOf(js, rs)]
    IN { JobOutcome(JobEnded(r, Raise("ValueError")), js, rs) }
       \cup IF j.name = NoName
            THEN { JobOutcome(JobEnded(g1, RequestFailed), js, rs),
                   JobOutcome(JobEnded(g2, RequestFailed), js, rs) }
                 \cup JobPost(named, js, rs, UniqueName(Base, named.jnames))
            ELSE JobPost(r, js, rs, j.name)

-----------------------------------------------------------------------------
(* Collaborator add and remove *)

\* The most collaborators the list holds before an edit
MaxCollabs == 2

\* The ids of users and groups
Ids == 1..MaxCollabs
Callers == {"c1", "c2"}
Collab(id, type, permission) == [id |-> id, type |-> type, permission |-> permission]
Range(seq) == {seq[i] : i \in DOMAIN seq}
IdsOf(list) == {list[i].id : i \in DOMAIN list}

\* The userid argument: one id, or a tuple of ids
Userids == {<<1>>, <<2>>, <<1, 2>>, <<1, 1>>}

\* lines 464 and 480: [c for c in collabs if c['id'] not in userid]
Without(list, userid) ==
    LET keep(c) == c.id \notin Range(userid)
    IN SelectSeq(list, keep)

\* lines 467-469 (projects) and line 723 (deployments): the new entries
NewEntries(what, userid, group, read_only) ==
    [i \in DOMAIN userid |->
        Collab(userid[i],
               IF group THEN "group" ELSE "user",
               IF what = "projects" THEN (IF read_only THEN "r" ELSE "rw") ELSE "r")]

\* A variant of line 476 that finds nothing missing
MissingNone(userid, list) == {}

\* lines 476 and 730: set(userid) - set(c['id'] for c in collabs)
Missing(userid, list) == Range(userid) \ IdsOf(list)

\* A variant of the final PUT that is built from the list the platform holds
\* when the PUT is sent
FinalBodyFresh(e, what, current) ==
    IF e.op = "add"
    THEN Without(current, e.userid) \o NewEntries(what, e.userid, e.group, e.read_only)
    ELSE Without(current, e.userid)

\* lines 469-470 and 481-482: the list of the final PUT, built from the list
\* the caller fetched
FinalBody(e, what, current) ==
    IF e.op = "add"
    THEN e.local \o NewEntries(what, e.userid, e.group, e.read_only)
    ELSE e.local

NoCollabs == [what |-> "", list |-> <<>>]
NoEditor == [pc |-> "idle", op |-> "", userid |-> <<>>, group |-> FALSE,
             read_only |-> FALSE, got |-> FALSE, fetched |-> <<>>, local |-> <<>>,
             puts |-> <<>>, out |-> Ret("", "")]
NoEdit == [c \in Callers |-> NoEditor]
NoWatch == [read |-> FALSE, list |-> <<>>, during |-> {}]

CollabUnused == collabs = NoCollabs /\ edit = NoEdit /\ watch = NoWatch

-----------------------------------------------------------------------------
(* Listings *)

\* The most records a listing holds
MaxRecords == 3

\* lines 387 and 650: the value of collaborators when the caller gives none
DefaultCollaborators(op) == op = "deployment_list"

\* The argument as the method sees it
Collaborators(op, arg) ==
    IF arg = "unset" THEN DefaultCollaborators(op) ELSE arg = "yes"

\* A request: what is fetched, and the record it is fetched for
Req(kind, id) == <<kind, id>>

\* _join_collaborators, lines 606-612: one request for each record
JoinCollaborators(n) == [i \in 1..n |-> Req("collaborators", i)]

\* project_list, lines 387-392, and deployment_list, lines 650-658: the
\* requests of a listing of n records, in the order they are sent
ListRequests(op, collaborators, internal, n) ==
    << Req("list", 0) >>
    \o (IF op = "deployment_list" /\ n > 0 THEN << Req("projects", 0) >> ELSE <<>>)
    \o (IF ~internal /\ collaborators THEN JoinCollaborators(n) ELSE <<>>)

NoLst == [op |-> "", by |-> "", collaborators |-> "", internal |-> FALSE, n |-> 0,
          log |-> <<>>, out |-> Ret("", "")]

-----------------------------------------------------------------------------
(* The response normalizer: _format_dataframe *)

\* The most rows a response holds
MaxRows == 2

\* The keys of the records the platform sends, and the names a caller's
\* column list is made of
Keys == {"id", "name", "owner"}
ColumnNames == {"id", "name", "url"}

\* The sequences without repetition over a set: the key order of a dict, a
\* column list
Orders(S) ==
    UNION { {f \in [1..n -> S] : \A i, j \in 1..n : f[i] = f[j] => i = j} :
              n \in 0..Cardinality(S) }

\* The position of x in a sequence that holds it once
Pos(seq, x) == CHOOSE i \in DOMAIN seq : seq[i] = x

\* pd.DataFrame(list of dicts), line 157: the columns are the keys in the
\* order in which the rows first show them
RECURSIVE DataFrame(_)
DataFrame(rows) ==
    IF rows = <<>> THEN <<>>
    ELSE LET before == DataFrame(SubSeq(rows, 1, Len(rows) - 1))
             row == rows[Len(rows)]
         IN before \o SelectSeq(row, LAMBDA k : k \notin Range(before))

\* A variant of _format_dataframe that puts the columns the list does not
\* name first
FormatDataframeExtraFirst(response, columns) ==
    IF response.kind \notin {"dict", "list"}
    THEN RaiseOn("RuntimeError", "Not a dataframe-compatible output")
    ELSE LET data == DataFrame(response.rows)
             df == IF Len(response.rows) = 0 /\ columns # <<>> THEN columns ELSE data
             cols == SelectSeq(df, LAMBDA c : c \notin Range(columns))
                     \o SelectSeq(columns, LAMBDA c : c \in Range(df))
         IN Ret(IF response.kind = "dict" THEN "series" ELSE "frame",
                IF columns # <<>> /\ cols # <<>> THEN cols ELSE df)

\* _format_dataframe, lines 150-176.  The result is the columns of the frame
\* (for a dict, the index of the series), in order.  columns is <<>> when
\* the caller gives no list (None) or an empty one: both are false at lines
\* 158 and 168.
FormatDataframe(response, columns) ==
    IF response.kind \notin {"dict", "list"}
    THEN RaiseOn("RuntimeError", "Not a dataframe-compatible output")
    ELSE LET data == DataFrame(response.rows)
             df == IF Len(response.rows) = 0 /\ columns # <<>> THEN columns ELSE data
             cols == SelectSeq(columns, LAMBDA c : c \in Range(df))
                     \o SelectSeq(df, LAMBDA c : c \notin Range(columns))
         IN Ret(IF response.kind = "dict" THEN "series" ELSE "frame",
                IF columns # <<>> /\ cols # <<>> THEN cols ELSE df)

\* The responses a call hands to _format_dataframe: a dict (one row), a list
\* of dicts, or a payload that is neither
Payloads ==
    { [kind |-> "dict", rows |-> <<r>>] : r \in Orders(Keys) }
    \cup { [kind |-> "list", rows |-> rs] :
             rs \in UNION { [1..n -> Orders(Keys)] : n \in 0..MaxRows } }
    \cup { [kind |-> "other", rows |-> <<>>] }

NoNorm == [response |-> [kind |-> "", rows |-> <<>>], columns |-> <<>>,
           done |-> FALSE, out |-> Ret("", "")]

-----------------------------------------------------------------------------
(* Joining the project into session and deployment records *)

\* The most sessions or deployments the platform holds
MaxEnts == 2

\* Names of sessions, deployments and projects, and project ids
EntNames == {"n1", "n2"}
ProjectNames == {"n1", "web"}
Pids == {"p1", "p2"}

\* response[key] = value
SetKey(rec, key, value) ==
    [k \in DOMAIN rec \cup {key} |-> IF k = key THEN value ELSE rec[k]]

\* _join_projects, lines 586-592 and 598-604: the join of one record, given
\* the project name found and the value for project_id
JoinRecord(rec, nameprefix, pname, pid) ==
    LET named ==
            IF nameprefix # "" \/ "name" \notin DOMAIN rec
            THEN SetKey(IF "name" \in DOMAIN rec
                        THEN SetKey(rec, nameprefix \o "_name", rec["name"])
                        ELSE rec,
                        "name", pname)
            ELSE SetKey(rec, "project_name", pname)
    IN SetKey(named, "project_id", pid)

\* line 597: pnames.get(pid, '') over the project list
ProjectName(projects, pid) == IF pid \in DOMAIN projects THEN projects[pid] ELSE ""

\* _join_projects on a list, lines 593-604
JoinList(records, nameprefix, projects) ==
    [i \in DOMAIN records |->
        LET pid == records[i]["project_url"]
            pname == ProjectName(projects, pid)
        IN JoinRecord(records[i], nameprefix, pname, IF pname # "" THEN pid ELSE "")]

\* _join_projects on a dict, lines 583-592: GET projects/<pid> is refused
\* for a project the platform does not hold, and the error leaves the call
JoinDict(rec, nameprefix, projects) ==
    LET pid == rec["project_url"]
    IN IF pid \in DOMAIN projects
       THEN Ret("record", JoinRecord(rec, nameprefix, projects[pid], pid))
       ELSE RequestFailed

\* The prefix session_list and session_info pass (lines 626, 632);
\* deployment_list and deployment_info pass none (lines 652, 662)
NamePrefix(type) == IF type = "sessions" THEN "session" ELSE ""

\* session_list, lines 622-627, and deployment_list, lines 650-658, as far
\* as the project join
EntityList(p) == JoinList(p.records, NamePrefix(p.type), p.projects)

\* _id by id over the joined listing, lines 310-330: the one record with the
\* id, or none
Matching(records, id) == SelectSeq(records, LAMBDA r : r["id"] = id)

\* session_info, lines 629-633, and deployment_info, lines 660-667
EntityInfo(p, id, quiet) ==
    LET matches == Matching(EntityList(p), id)
    IN IF Len(matches) = 1
       THEN JoinDict(matches[1], NamePrefix(p.type), p.projects)
       ELSE IF ~quiet THEN RaiseOn("ValueError", "No " \o p.type \o " found")
       ELSE IF p.type = "sessions" THEN Ret("None", "")
       ELSE Raise("AttributeError")

NoPlatform == [type |-> "", records |-> <<>>, projects |-> <<>>]
NoInfo == [op |-> "", id |-> 0, out |-> Ret("", "")]

-----------------------------------------------------------------------------
(* The options of the command line: cli/utils.py *)

\* The most filters the options hold
MaxFilter == 2

\* The options and the values the command line gives them
Params == {"format", "header", "filter"}
Values(param) ==
    IF param = "format" THEN {"csv", "json"}
    ELSE IF param = "header" THEN BOOLEAN
    ELSE {<<"a">>}

\* A dict is a function on the keys it holds
Empty == [k \in {} |-> 0]

\* d1.update(d2)
Update(d1, d2) ==
    [k \in DOMAIN d1 \cup DOMAIN d2 |-> IF k \in DOMAIN d2 THEN d2[k] ELSE d1[k]]

\* add_param, lines 6-19: the options after the call, or the usage error.
\* The only booleans are the values of header.
AddParam(options, param, value) ==
    IF param \in DOMAIN options /\ param # "filter"
       /\ param # "header" /\ options[param] # value
    THEN [options |-> options, out |-> Raise("UsageError")]
    ELSE [options |-> Update(options,
                             [k \in {param} |->
                                 IF param \in DOMAIN options /\ param = "filter"
                                 THEN options[param] \o value ELSE value]),
          out |-> Ret("", "")]

\* get_options, lines 29-34: the dict returned, and the defaults after the
\* call.  Without 'defaults' in obj a new dict is updated; with it, line 32
\* takes the stored dict itself and line 33 updates it.
GetOptions(o) ==
    LET options == Update(IF o.has_defaults THEN o.defaults ELSE Empty, o.options)
    IN [returned |-> options,
        defaults |-> IF o.has_defaults THEN options ELSE o.defaults]

\* ctx.obj before any option is read; stashed is the defaults as
\* stash_defaults stored them, and returned the dict get_options gave last
NoCli == [options |-> Empty, has_defaults |-> FALSE, defaults |-> Empty,
          stashed |-> Empty, op |-> "", given |-> Empty, returned |-> Empty,
          out |-> Ret("", "")]

-----------------------------------------------------------------------------
(* AEUserSession.deployment_restart *)

\* The requests of deployment_restart up to the POST of deployment_start, in
\* the order they are sent: _id (767), deployment_collaborators (768: _id
\* and the GET), the DELETE (775), then _revision and the POST (741, 752)
RestartRequests ==
    <<"deployments", "deployments", "collaborators", "delete",
      "projects", "revisions", "post">>

\* The first `answered` of them have been answered: is `request` one?
Answered(answered, request) ==
    \E i \in 1..answered : RestartRequests[i] = request

\* line 755: `if collaborators:`
SetsCollaborators(collaborators) == collaborators # <<>>

\* deployment_restart with the first `answered` of its requests answered and
\* the next one, if any, failed
RestartFailed(r, answered) ==
    [r EXCEPT !.pc = "done", !.out = RequestFailed,
              !.log = SubSeq(RestartRequests, 1, answered + 1),
              !.collab = IF Answered(answered, "collaborators")
                         THEN r.old.collabs ELSE <<>>,
              !.old.exists = ~Answered(answered, "delete")]

\* deployment_restart, lines 766-779, and the deployment_start it calls,
\* lines 738-764, up to the first sleep of the loop, with every request
\* answered: the platform refuses the deployment, or makes it in some state
\* and with no collaborators
RestartAnswered(r, wait) ==
    LET d == [r EXCEPT !.wait = wait, !.log = RestartRequests,
                       !.collab = r.old.collabs, !.old.exists = FALSE]
    IN { [d EXCEPT !.pc = "done",
                   !.out = RaiseOn("RuntimeError: Error starting deployment", "refused")] }
       \cup
       { LET e == [d EXCEPT !.new = [exists |-> TRUE, collabs |-> <<>>, state |-> state]]
         IN IF SetsCollaborators(d.collab)
            \* line 756 calls deployment_set_collaborators, which the class
            \* does not define
            THEN [e EXCEPT !.pc = "done", !.out = Raise("AttributeError")]
            ELSE IF DeployWaiting(wait, state)
            THEN [e EXCEPT !.pc = "loop"]
            ELSE [e EXCEPT !.pc = "done", !.out = DeployFinish(0, wait, state).out] :
         state \in DepStates }

NoRst == [pc |-> "idle", wait |-> FALSE,
          old |-> [exists |-> FALSE, collabs |-> <<>>],
          new |-> [exists |-> FALSE, collabs |-> <<>>, state |-> ""],
          collab |-> <<>>, log |-> <<>>, fetches |-> 0, out |-> Ret("", "")]

\* The other parts are not in use
OthersUnused ==
    /\ norm = NoNorm /\ platform = NoPlatform /\ info = NoInfo /\ cli = NoCli
    /\ rst = NoRst

\* The entity operations are not in use
EntitiesUnused ==
    /\ jobs = {} /\ runs = {} /\ jc = NoJc
    /\ CollabUnused
    /\ lst = NoLst
    /\ OthersUnused

\* The operations are not in use
OpsUnused ==
    /\ revisions = NoRevisions /\ rres = NoRres
    /\ feed = <<>> /\ poll = NoPoll
    /\ depstate = NoDeployment /\ dpl = NoDpl
    /\ EntitiesUnused

-----------------------------------------------------------------------------
(* Construction *)

\* A variant of _load that keeps the saved token data when the refresh is
\* refused
LoadKeepsSaved(s, w_srv, refresh_ok) ==
    IF s.role = "user"
    THEN IF s.file.exists THEN [s EXCEPT !.cookies = s.file.jar] ELSE s
    ELSE IF s.file.exists /\ s.file.sdata.k = "tok"
         THEN [s EXCEPT !.sdata = IF refresh_ok THEN TokData(NextTok(w_srv))
                                  ELSE s.file.sdata]
         ELSE s

\* AEUserSession._load / AEAdminSession._load.  The admin session posts the
\* saved refresh token once; refresh_ok is the platform's answer (status 200).
Load(s, w_srv, refresh_ok) ==
    IF s.role = "user"
    THEN IF s.file.exists THEN [s EXCEPT !.cookies = s.file.jar] ELSE s
    ELSE IF s.file.exists /\ s.file.sdata.k = "tok" /\ refresh_ok
         THEN [s EXCEPT !.sdata = TokData(NextTok(w_srv))]
         ELSE s

\* AESessionBase.__init__ (with the subclass constructors)
Construct(role, persist, password, file, w_srv, refresh_ok) ==
    LET s0 == [role |-> role, alive |-> TRUE, persist |-> persist,
               password |-> password, connected |-> FALSE, cookies |-> {},
               headers |-> {}, sdata |-> NoData, file |-> file]
        s1 == IF persist THEN Load(s0, w_srv, refresh_ok) ELSE s0
        s2 == [s1 EXCEPT !.connected = Connected(s1)]
    IN IF s2.connected THEN SetHeader(s2) ELSE s2

\* A session object that the program never constructs.
Absent(role) ==
    [role |-> role, alive |-> FALSE, persist |-> FALSE, password |-> "supplied",
     connected |-> FALSE, cookies |-> {}, headers |-> {}, sdata |-> NoData,
     file |-> NoFile]

\* The credential files a persistent session may find on disk.
UsrFiles ==
    { NoFile,
      [exists |-> TRUE, sdata |-> NoData,
       jar |-> {Cookie("sess", 0, Username), Cookie("_xsrf", 1, Username)}],
      [exists |-> TRUE, sdata |-> NoData, jar |-> {Cookie("sess", 0, Username)}] }
AdmFiles ==
    { NoFile,
      [exists |-> TRUE, jar |-> {}, sdata |-> TokData(1)],
      [exists |-> TRUE, jar |-> {}, sdata |-> EmptyData] }

UsrSessions(passwords) ==
    { Construct("user", persist, pw, file, 1, FALSE) :
        persist \in BOOLEAN, pw \in passwords,
        file \in UsrFiles }
AdmSessions ==
    { Construct("admin", persist, pw, file, 1, ok) :
        persist \in BOOLEAN, pw \in {"supplied", "none"},
        file \in AdmFiles, ok \in BOOLEAN }

\* The admin sessions handed to a user session as its password: made for
\* the purpose with the admin's password, and not persistent.
BridgeAdmins == {a \in AdmSessions : a.password = "supplied" /\ ~a.persist}

\* No call is in progress and the result of the last one was taken.
Idle(s) ==
    [op |-> "idle", who |-> "", arg |-> "", pre |-> s, out |-> Ret("", ""),
     tr |-> <<>>, snap |-> {}]

\* The program holds a user session, an admin session, or a user session
\* whose password is the admin session (the impersonation bridge).
Init ==
    /\ \/ \E u \in UsrSessions({"supplied", "none"}) :
            sess = [usr |-> u, adm |-> Absent("admin")]
       \/ \E a \in AdmSessions :
            sess = [usr |-> Absent("user"), adm |-> a]
       \/ \E u \in UsrSessions({"admin"}), a \in BridgeAdmins :
            sess = [usr |-> u, adm |-> a]
    /\ srv = 1
    /\ last = Idle(sess)
    /\ listing = NoListing
    /\ OpsUnused
    /\ res = NoRes

-----------------------------------------------------------------------------
(* The public calls *)

World == [s |-> sess, srv |-> srv, tr |-> <<>>, snap |-> {}]

Commit(op, who, arg, r) ==
    /\ sess' = r.w.s
    /\ srv' = r.w.srv
    /\ last' = [op |-> op, who |-> who, arg |-> arg, pre |-> sess,
                out |-> r.out, tr |-> r.w.tr, snap |-> r.w.snap]
    /\ UNCHANGED resolverVars
    /\ UNCHANGED opsVars

\* The program calls session `who`.  An admin session that was given to the
\* user session as its password is called by the user session alone.
Callable(who) ==
    /\ last.op = "idle"
    /\ sess[who].alive
    /\ who = "adm" => sess["usr"].password # "admin"

\* session._get / _post / _put / _patch / _delete on some endpoint
Request(who) ==
    /\ Callable(who)
    /\ \E fmt \in Formats : \E r \in Api(who, World, Ep("call", ""), fmt) :
          Commit("request", who, fmt, r)

\* session.authorize()
AuthorizeCall(who) ==
    /\ Callable(who)
    /\ \E r \in Authorize(who, World) : Commit("authorize", who, "", r)

\* session.disconnect()
DisconnectCall(who) ==
    /\ Callable(who)
    /\ \E r \in Disconnect(who, World) : Commit("disconnect", who, "", r)

\* admin.impersonate(user)
ImpersonateCall ==
    /\ Callable("adm")
    /\ \E u \in Users : \E r \in Impersonate(World, u) :
          Commit("impersonate", "adm", u, r)

\* The caller takes the result of the call (the value returned or the
\* exception raised); the session is ready for the next call.
Return ==
    /\ last.op # "idle"
    /\ last' = Idle(sess)
    /\ UNCHANGED <<sess, srv>>
    /\ UNCHANGED resolverVars
    /\ UNCHANGED opsVars

Next ==
    \/ \E who \in Who : Request(who)
    \/ \E who \in Who : AuthorizeCall(who)
    \/ \E who \in Who : DisconnectCall(who)
    \/ ImpersonateCall
    \/ Return

Spec == Init /\ [][Next]_vars

-----------------------------------------------------------------------------
(* The life of a session object: construction, calls, teardown *)

\* A session object the program has not constructed (or has torn down),
\* with the credential file its constructor would find on disk
Disk(role, file) == [Absent(role) EXCEPT !.file = file]

\* AEAdminSession._load, lines 925-929: the saved data holds a refresh token
\* and the constructor posts it
LoadPosts(role, persist, file) ==
    persist /\ role = "admin" /\ file.exists /\ file.sdata.k = "tok"

\* AEUserSession(...) / AEAdminSession(...): the constructor, with the
\* requests it sends.  The platform accepts or refuses the refresh token.
New(who, w, persist, password) ==
    LET role == w.s[who].role
        file == w.s[who].file
        posts == LoadPosts(role, persist, file)
        w0 == Ev(w, who, "new", "")
        w1 == IF persist THEN Ev(w0, who, "load", "") ELSE w0
    IN { LET w2 == IF posts
                   THEN Ev(w1, who, "refresh", IF ok THEN "ok" ELSE "refused")
                   ELSE w1
             s == Construct(role, persist, password, file, w.srv, ok)
         IN Run([SetS(w2, who, s)
                 EXCEPT !.srv = IF posts /\ ok THEN NextTok(w.srv) ELSE w.srv],
                Ret("", "")) :
         ok \in IF posts THEN BOOLEAN ELSE {FALSE} }

\* AESessionBase.__del__: an exception raised inside it is not propagated
\* to the program; the object is gone afterwards
Del(who, w) ==
    LET s == w.s[who]
        w0 == Ev(w, who, "del", "")
        Dead(x) == SetS(x, who, [x.s[who] EXCEPT !.alive = FALSE])
    IN IF ~s.persist /\ s.connected
       THEN { Run(Dead(r.w), Ret("", "")) : r \in Disconnect(who, w0) }
       ELSE { Run(Dead(w0), Ret("", "")) }

\* The program constructs a session; it holds sessions of one class
NewCall(who) ==
    /\ last.op = "idle"
    /\ ~sess[who].alive
    /\ \A o \in Who \ {who} : sess[o] = Absent(sess[o].role)
    /\ \E persist \in BOOLEAN, password \in {"supplied", "none"} :
       \E r \in New(who, World, persist, password) : Commit("new", who, "", r)

\* The session object is torn down
DelCall(who) ==
    /\ Callable(who)
    /\ \E r \in Del(who, World) : Commit("del", who, "", r)

InitLife ==
    /\ \/ \E uf \in UsrFiles : sess = [usr |-> Disk("user", uf), adm |-> Absent("admin")]
       \/ \E af \in AdmFiles : sess = [usr |-> Absent("user"), adm |-> Disk("admin", af)]
    /\ srv = 1
    /\ last = Idle(sess)
    /\ listing = NoListing
    /\ OpsUnused
    /\ res = NoRes

NextLife ==
    \/ \E who \in Who : NewCall(who)
    \/ \E who \in Who : Request(who)
    \/ \E who \in Who : AuthorizeCall(who)
    \/ \E who \in Who : DisconnectCall(who)
    \/ \E who \in Who : DelCall(who)
    \/ Return

SpecLife == InitLife /\ [][NextLife]_vars

-----------------------------------------------------------------------------
(* Entity resolution against the listings the platform may serve *)

\* The longest listing served.
MaxListing == 2

Str(a, b) == <<a, b>>
Rec(owner, name, id, has_pid, project_id) ==
    [owner |-> owner, name |-> name, id |-> id, has_pid |-> has_pid,
     project_id |-> project_id]

Types == {"projects", "sessions", "jobs"}

\* The records of each type that exist on the platform, each with an id of
\* its own.  Two of each type share a name under different owners.  Project
\* records carry no project_id.
Universe(type) ==
    LET pfx == IF type = "projects" THEN "a0"
               ELSE IF type = "sessions" THEN "a1" ELSE "a2"
        sub == type # "projects"
    IN { Rec(<<"a">>, Str("d", "e"), Str(pfx, "1"), sub, IF sub THEN Str("a0", "1") ELSE <<>>),
         Rec(<<"b">>, Str("d", "e"), Str(pfx, "2"), sub, IF sub THEN Str("a0", "2") ELSE <<>>),
         Rec(<<"a">>, Str("d", "o"), Str(pfx, "3"), sub, IF sub THEN Str("a0", "1") ELSE <<>>) }
       \cup (IF type = "projects"
             \* a project whose name holds a character that fnmatch reads as a wildcard
             THEN { Rec(<<"a">>, Str("d", "?"), Str(pfx, "4"), FALSE, <<>>) }
             ELSE {})

\* The listings: up to MaxListing distinct records, in any order
Listings(type) ==
    UNION { { s \in [1..n -> Universe(type)] : \A i, j \in 1..n : i # j => s[i] # s[j] } :
            n \in 0..MaxListing }

\* The identifiers resolved: each field absent, exact or a wildcard pattern
Idents ==
    [owner : {<<>>, <<"a">>, Star},
     name : {<<>>, Str("d", "e"), Str("d", "*"), Str("d", "?")},
     id : {<<>>, Str("a0", "1"), Str("a1", "1"), Str("a2", "1"), Str("a1", "*")},
     pid : {<<>>, Str("a0", "1")}]

SessionUnused == [usr |-> Absent("user"), adm |-> Absent("admin")]

InitId ==
    /\ sess = SessionUnused
    /\ srv = 1
    /\ last = Idle(sess)
    /\ \E type \in Types : \E records \in Listings(type) :
          listing = [type |-> type, records |-> records]
    /\ res = NoRes
    /\ OpsUnused

\* session._id(type, ident, quiet): the listing is fetched and filtered
Resolve ==
    /\ res = NoRes
    /\ \E ident \in Idents, quiet \in BOOLEAN :
          res' = [type |-> listing.type, ident |-> ident, quiet |-> quiet,
                  out |-> Id(listing.type, ident, quiet, listing.records)]
    /\ UNCHANGED listing
    /\ UNCHANGED sessionVars
    /\ UNCHANGED opsVars

\* The caller takes the result of the resolution.
ReturnId ==
    /\ res # NoRes
    /\ res' = NoRes
    /\ UNCHANGED listing
    /\ UNCHANGED sessionVars
    /\ UNCHANGED opsVars

NextId == Resolve \/ ReturnId

SpecId == InitId /\ [][NextId]_vars

-----------------------------------------------------------------------------
(* Resolving samples, editors, resource profiles and endpoints *)

\* The records of each type: samples and endpoints carry an id and a name,
\* and the name of one is the id of another; resource profiles carry names
\* only
NameUniverse(type) ==
    IF type \in {"sample", "endpoint"}
    THEN { Rec(<<>>, Str("p", "y"), Str("s", "1"), FALSE, <<>>),
           Rec(<<>>, Str("s", "1"), Str("x", "2"), FALSE, <<>>),
           Rec(<<>>, Str("p", "y"), Str("s", "3"), FALSE, <<>>) }
    ELSE { Rec(<<>>, Str("p", "y"), <<>>, FALSE, <<>>),
           Rec(<<>>, Str("s", "1"), <<>>, FALSE, <<>>),
           Rec(<<>>, Str("s", "3"), <<>>, FALSE, <<>>) }

\* The names and patterns the caller gives
NameIdents == {Str("s", "1"), Str("s", "*"), Str("p", "y"), Str("?", "2"), <<"z">>, Star}

InitName ==
    /\ sess = SessionUnused
    /\ srv = 1
    /\ last = Idle(sess)
    /\ \E type \in {"sample", "endpoint", "resource_profile"}, n \in 0..MaxListing :
       \E records \in [1..n -> NameUniverse(type)] :
          /\ \A i, j \in 1..n : i # j => records[i] # records[j]
          /\ listing = [type |-> type, records |-> records]
    /\ res = NoRes
    /\ OpsUnused

\* session._id_or_name(type, ident, quiet): the listing is fetched and
\* filtered
ResolveName ==
    /\ res = NoRes
    /\ \E ident \in NameIdents, quiet \in BOOLEAN :
          res' = [type |-> listing.type, ident |-> ident, quiet |-> quiet,
                  out |-> IdOrName(listing.type, ident, quiet, listing.records)]
    /\ UNCHANGED listing
    /\ UNCHANGED sessionVars
    /\ UNCHANGED opsVars

NextName == ResolveName \/ ReturnId

SpecName == InitName /\ [][NextName]_vars

-----------------------------------------------------------------------------
(* Revision resolution against the revision lists the platform may serve *)

\* The longest revision list served.
MaxRevisions == 2

\* The revisions that exist on the platform
RevUniverse == { RevRec(Str("v", "1")), RevRec(Str("v", "2")), RevRec(Str("w", "1")) }

\* The revision lists: up to MaxRevisions distinct revisions, in any order
RevLists ==
    UNION { { s \in [1..n -> RevUniverse] : \A i, j \in 1..n : i # j => s[i] # s[j] } :
            n \in 0..MaxRevisions }

\* The identifiers resolved: a project by id or by name, and a revision that
\* is absent, 'latest', exact or a wildcard pattern
RevIdents ==
    [owner : {<<>>},
     name : {<<>>, Str("d", "e")},
     id : {<<>>, Str("a0", "1")},
     pid : {<<>>},
     revision : {<<>>, Latest, Str("v", "1"), Str("v", "*"), Str("x", "*")}]

InitRev ==
    /\ sess = SessionUnused
    /\ srv = 1
    /\ last = Idle(sess)
    /\ \E records \in Listings("projects") :
          listing = [type |-> "projects", records |-> records]
    /\ res = NoRes
    /\ revisions \in RevLists
    /\ rres = NoRres
    /\ feed = <<>> /\ poll = NoPoll
    /\ depstate = NoDeployment /\ dpl = NoDpl
    /\ EntitiesUnused

\* session._revision(ident, keep_latest, quiet)
ResolveRevision ==
    /\ rres = NoRres
    /\ \E ident \in RevIdents, keep_latest \in BOOLEAN, quiet \in BOOLEAN,
          fetch \in {"json", "raise"} :
          rres' = [ident |-> ident, keep_latest |-> keep_latest, quiet |-> quiet,
                   fetch |-> fetch,
                   out |-> Revision(ident, keep_latest, quiet, listing.records,
                                    revisions, fetch)]
    /\ UNCHANGED revisions
    /\ UNCHANGED <<entityVars, sessionVars, resolverVars, pollerVars, deployVars>>

\* The caller takes the result of the resolution.
ReturnRev ==
    /\ rres # NoRres
    /\ rres' = NoRres
    /\ UNCHANGED revisions
    /\ UNCHANGED <<entityVars, sessionVars, resolverVars, pollerVars, deployVars>>

NextRev == ResolveRevision \/ ReturnRev

SpecRev == InitRev /\ [][NextRev]_vars

-----------------------------------------------------------------------------
(* Awaiting an action while the platform's activity feed changes *)

\* The unrelated entries the feed receives.
MaxNoise == 2

\* The operation ends: the caller gets the record or the exception
Ended(p, out) == [p EXCEPT !.pc = "done", !.out = out]

\* The session as the last request of the operation left it
After(p, w) == [p EXCEPT !.after = {w.s["usr"]}]

\* One more fetch of the activity feed is counted
Polled(p, size, seen, resp) ==
    [p EXCEPT !.polls = IF @ < MaxPolls THEN @ + 1 ELSE @,
              !.sizes = IF Len(@) < MaxPolls THEN Append(@, size) ELSE @,
              !.seen = seen, !.resp = resp]

\* The session after the requests of a step
SessionAfter(w) ==
    /\ sess' = w.s
    /\ srv' = w.srv
    /\ last' = Idle(w.s)

InitWait ==
    /\ \E u \in UsrSessions({"supplied"}) : sess = [usr |-> u, adm |-> Absent("admin")]
    /\ srv = 1
    /\ last = Idle(sess)
    /\ listing = NoListing
    /\ res = NoRes
    /\ revisions = NoRevisions /\ rres = NoRres
    /\ feed = <<>>
    /\ poll = NoPoll
    /\ depstate = NoDeployment /\ dpl = NoDpl
    /\ EntitiesUnused

\* session.project_upload(...) / session.session_start(...), up to the first
\* sleep of _wait: the request is posted, the platform answers with an error
\* or with the action it started, and the action is awaited if wait is set
\* and it is not terminal already
Start ==
    /\ poll.pc = "idle"
    /\ \E op \in {"project_upload", "session_start"}, wait \in BOOLEAN :
       \E r \in Submit(op, World) :
          LET p == After([poll EXCEPT !.op = op, !.wait = wait], r.w)
          IN IF r.out.kind = "raise"
             THEN /\ SessionAfter(r.w)
                  /\ poll' = Ended(p, r.out)
                  /\ UNCHANGED feed
             ELSE \/ \* response.get('error')
                     /\ SessionAfter(r.w)
                     /\ poll' = Ended(p, RaiseOn(IF op = "project_upload"
                                                 THEN "RuntimeError: Error uploading project"
                                                 ELSE "RuntimeError: Error starting project",
                                                 "refused"))
                     /\ UNCHANGED feed
                  \/ \E action \in TargetStates :
                       LET q == [p EXCEPT !.given = action, !.status = action]
                           f == Finish(op, r.w, action)
                       IN /\ feed' = <<action>> \o feed
                          /\ IF wait /\ Waiting(action)
                             THEN /\ SessionAfter(r.w)
                                  /\ poll' = [q EXCEPT !.pc = "loop"]
                             ELSE /\ SessionAfter(f.w)
                                  /\ poll' = Ended([q EXCEPT !.waited = wait], f.out)
    /\ UNCHANGED <<entityVars, resolverVars, revisionVars, deployVars>>

\* One turn of the loop of _wait after its sleep: the feed is fetched, the
\* status is looked up in the page, and the operation ends when _wait returns
Poll ==
    /\ poll.pc = "loop"
    \* the feed holds the action and at most MaxNoise other entries, so
    \* the action is missed at most MaxNoise times
    /\ poll.index <= MaxNoise
    /\ \E r \in GetJson(World, Ep("activity", "")) :
          LET size == PageSize(poll.index)
              page == Page(feed, size)
              resp == LastRecv(r.w.tr)
              p == After(poll, r.w)
          IN IF FetchFailed(r)
             THEN /\ SessionAfter(r.w)
                  /\ poll' = Ended(Polled(p, size, "raise", resp), r.out)
             ELSE IF Found(page, poll.status.id)
             THEN LET status == First(page, poll.status.id)
                      q == [p EXCEPT !.status = status]
                      f == Finish(poll.op, r.w, status)
                  IN IF Waiting(status)
                     THEN /\ SessionAfter(r.w)
                          /\ poll' = Polled(q, size, "pending", resp)
                     ELSE /\ SessionAfter(f.w)
                          /\ poll' = Ended(Polled([q EXCEPT !.waited = TRUE],
                                                  size, "terminal", resp), f.out)
             ELSE /\ SessionAfter(r.w)
                  /\ poll' = Polled([p EXCEPT !.index = @ + 1], size, "missing", resp)
    /\ UNCHANGED feed
    /\ UNCHANGED <<entityVars, resolverVars, revisionVars, deployVars>>

\* The platform records activity that is not the awaited action
Noise ==
    /\ poll.pc # "done"
    /\ Len(SelectSeq(feed, LAMBDA s : s.id = Other.id)) < MaxNoise
    /\ feed' = <<Other>> \o feed
    /\ UNCHANGED <<entityVars, sessionVars, resolverVars, revisionVars, poll, deployVars>>

\* The platform completes the awaited action or fails it; the status, being
\* updated, becomes the first of the feed
Progress ==
    /\ poll.pc = "loop"
    /\ \E i \in DOMAIN feed :
          /\ feed[i] = Pending
          /\ \E s \in {Done, Failed} :
                feed' = <<s>> \o SubSeq(feed, 1, i - 1) \o SubSeq(feed, i + 1, Len(feed))
    /\ UNCHANGED <<entityVars, sessionVars, resolverVars, revisionVars, poll, deployVars>>

NextWait == Start \/ Poll \/ Noise \/ Progress

SpecWait == InitWait /\ [][NextWait]_vars

\* The loop of _wait polls again after every sleep, and the platform brings
\* the action it started to an end.
SpecWaitLive == SpecWait /\ WF_vars(Poll) /\ WF_vars(Progress)

-----------------------------------------------------------------------------
(* Starting a deployment while the platform brings it up *)

\* One more fetch of the deployment is counted
Fetched(d, seen) ==
    [d EXCEPT !.fetches = IF @ < MaxPolls THEN @ + 1 ELSE @, !.seen = seen]

InitDeploy ==
    /\ \E u \in UsrSessions({"supplied"}) : sess = [usr |-> u, adm |-> Absent("admin")]
    /\ srv = 1
    /\ last = Idle(sess)
    /\ listing = NoListing
    /\ res = NoRes
    /\ revisions = NoRevisions /\ rres = NoRres
    /\ feed = <<>> /\ poll = NoPoll
    /\ depstate = NoDeployment
    /\ dpl = NoDpl
    /\ EntitiesUnused

\* session.deployment_start(ident, collaborators=..., wait=...), up to the
\* first sleep of its loop: the revision is resolved, the deployment is
\* posted, the platform answers with an error or with the deployment in some
\* state, the collaborators are set if any were given, and the state is
\* awaited if wait is set and the state is 'initial' or 'starting'
DeployStart ==
    /\ dpl.pc = "idle"
    /\ \E wait \in BOOLEAN, collaborators \in BOOLEAN :
       \E r \in Submit("deployment_start", World) :
          LET d == [dpl EXCEPT !.wait = wait]
          IN /\ SessionAfter(r.w)
             /\ IF r.out.kind = "raise"
                THEN /\ dpl' = [d EXCEPT !.pc = "done", !.out = r.out]
                     /\ UNCHANGED depstate
                ELSE \/ \* response.get('error')
                        /\ dpl' = [d EXCEPT !.pc = "done",
                                   !.out = RaiseOn("RuntimeError: Error starting deployment",
                                                   "refused")]
                        /\ UNCHANGED depstate
                     \/ \E state \in DepStates :
                          /\ depstate' = state
                          /\ IF collaborators
                             \* line 756 calls a method the class does not define
                             THEN dpl' = [d EXCEPT !.pc = "done",
                                                  !.out = Raise("AttributeError")]
                             ELSE LET e == [d EXCEPT !.submitted = TRUE,
                                                    !.first = state, !.state = state]
                                  IN IF DeployWaiting(wait, state)
                                     THEN dpl' = [e EXCEPT !.pc = "loop"]
                                     ELSE dpl' = [e EXCEPT !.pc = "done",
                                                  !.out = DeployFinish(r.w, wait, state).out]
    /\ UNCHANGED <<entityVars, resolverVars, revisionVars, pollerVars>>

\* One turn of the loop of deployment_start after its sleep: the deployment
\* is fetched again and its state decides whether the loop goes on
DeployPoll ==
    /\ dpl.pc = "loop"
    /\ \E r \in GetJson(World, Ep("deployment", "")) :
          /\ SessionAfter(r.w)
          /\ IF r.out.kind = "raise"
             THEN dpl' = [Fetched(dpl, "raise") EXCEPT !.pc = "done", !.out = r.out]
             ELSE LET e == [Fetched(dpl, depstate) EXCEPT !.state = depstate]
                  IN IF DeployWaiting(dpl.wait, depstate)
                     THEN dpl' = e
                     ELSE dpl' = [e EXCEPT !.pc = "done",
                                  !.out = DeployFinish(r.w, dpl.wait, depstate).out]
    /\ UNCHANGED depstate
    /\ UNCHANGED <<entityVars, resolverVars, revisionVars, pollerVars>>

\* The platform brings the deployment up, or fails it
Advance ==
    /\ dpl.pc # "done"
    /\ \/ depstate = "initial" /\ depstate' \in {"starting", "failed"}
       \/ depstate = "starting" /\ depstate' \in {"started", "failed"}
    /\ UNCHANGED <<entityVars, sessionVars, resolverVars, revisionVars, pollerVars, dpl>>

NextDeploy == DeployStart \/ DeployPoll \/ Advance

SpecDeploy == InitDeploy /\ [][NextDeploy]_vars

-----------------------------------------------------------------------------
(* Creating a job while the platform runs it *)

InitJob ==
    /\ sess = SessionUnused
    /\ srv = 1
    /\ last = Idle(sess)
    /\ listing = NoListing /\ res = NoRes
    /\ revisions = NoRevisions /\ rres = NoRres
    /\ feed = <<>> /\ poll = NoPoll
    /\ depstate = NoDeployment /\ dpl = NoDpl
    /\ \E S \in SUBSET NamePool :
          /\ Cardinality(S) <= MaxJobs
          /\ jobs = {Job(Rank(n), n) : n \in S}
    /\ \E S \in SUBSET NamePool :
          /\ Cardinality(S) <= MaxRuns
          /\ runs = {RunRec(0, n, "completed") : n \in S}
    /\ jc = NoJc
    /\ CollabUnused /\ lst = NoLst /\ OthersUnused

\* session.job_create(ident, schedule, name, run, wait, cleanup), up to the
\* first sleep of its loop
JobCreate ==
    /\ jc.pc = "idle"
    /\ \E name \in {NoName} \cup NamePool, schedule, run, wait, cleanup \in BOOLEAN :
          LET j == [jc EXCEPT !.name = name, !.schedule = schedule, !.run = run,
                              !.wait = wait, !.cleanup = cleanup,
                              !.jobs0 = jobs, !.runs0 = runs]
             error == ArgumentError(schedule, run, wait, cleanup)
          IN IF error # ""
             THEN /\ jc' = JobEnded(j, Raise(error))
                  /\ UNCHANGED <<jobs, runs>>
             ELSE \E o \in JobSubmit(j, jobs, runs) :
                     jc' = o.jc /\ jobs' = o.jobs /\ runs' = o.runs
    /\ UNCHANGED <<baseVars, otherVars, collabVars, lst>>

\* One turn of the loop of job_create after its sleep: the run is fetched
\* again and its state decides whether the loop goes on
JobPoll ==
    /\ jc.pc = "loop"
    /\ LET f == [jc EXCEPT !.fetches = IF @ < MaxPolls THEN @ + 1 ELSE @]
       IN \/ /\ jc' = JobEnded(f, RequestFailed)
             /\ UNCHANGED <<jobs, runs>>
          \/ \E o \in JobAwait(f, jobs, runs, OwnRun(runs).state) :
                jc' = o.jc /\ jobs' = o.jobs /\ runs' = o.runs
    /\ UNCHANGED <<baseVars, otherVars, collabVars, lst>>

\* The platform completes the run, or fails it
RunAdvance ==
    /\ jc.pc = "loop"
    /\ \E r \in runs, st \in {"completed", "error"} :
          /\ r.job = NewId /\ r.state = "running"
          /\ runs' = (runs \ {r}) \cup {[r EXCEPT !.state = st]}
    /\ UNCHANGED <<jobs, jc>>
    /\ UNCHANGED <<baseVars, otherVars, collabVars, lst>>

NextJob == JobCreate \/ JobPoll \/ RunAdvance

SpecJob == InitJob /\ [][NextJob]_vars

-----------------------------------------------------------------------------
(* Callers editing the collaborators of one project or deployment *)

InitCollab ==
    /\ sess = SessionUnused
    /\ srv = 1
    /\ last = Idle(sess)
    /\ listing = NoListing /\ res = NoRes
    /\ revisions = NoRevisions /\ rres = NoRres
    /\ feed = <<>> /\ poll = NoPoll
    /\ depstate = NoDeployment /\ dpl = NoDpl
    /\ jobs = {} /\ runs = {} /\ jc = NoJc
    /\ lst = NoLst /\ OthersUnused
    /\ \E what \in {"projects", "deployments"}, n \in 0..MaxCollabs :
       \E ids \in [1..n -> Ids] :
          /\ \A i, j \in 1..n : ids[i] = ids[j] => i = j
          /\ collabs = [what |-> what,
                        list |-> [i \in 1..n |-> Collab(ids[i], "user", "rw")]]
    /\ edit = NoEdit
    /\ watch = NoWatch

EditEnded(e, out) == [e EXCEPT !.pc = "done", !.out = out]

\* project_collaborator_add / _remove and deployment_collaborator_add /
\* _remove, up to their first PUT: the entity is resolved and its
\* collaborators are fetched; remove stops here if a target is missing
CollabStart(c) ==
    /\ edit[c].pc = "idle"
    /\ \E op \in {"add", "remove"}, userid \in Userids, group, read_only \in BOOLEAN :
          /\ op = "remove" => ~group /\ ~read_only
          /\ collabs.what = "deployments" => ~read_only
          /\ LET e == [edit[c] EXCEPT !.op = op, !.userid = userid, !.group = group,
                                      !.read_only = read_only]
                 f == [e EXCEPT !.got = TRUE, !.fetched = collabs.list,
                                !.local = Without(collabs.list, userid)]
             IN \/ edit' = [edit EXCEPT ![c] = EditEnded(e, RequestFailed)]
                \/ /\ op = "add"
                   /\ edit' = [edit EXCEPT ![c] =
                                  [f EXCEPT !.pc = IF Len(f.local) # Len(f.fetched)
                                                   THEN "mid" ELSE "final"]]
                \/ /\ op = "remove"
                   /\ edit' = [edit EXCEPT ![c] =
                        IF Missing(userid, collabs.list) # {}
                        THEN EditEnded(f, RaiseOn("AEException: Collaborator(s) not found",
                                                  Missing(userid, collabs.list)))
                        ELSE [f EXCEPT !.pc = "final"]]
    /\ UNCHANGED <<collabs, watch>>
    /\ UNCHANGED <<baseVars, otherVars, jobVars, lst>>

\* lines 465-466 and 720-721: the list without the targets is PUT
CollabMid(c) ==
    /\ edit[c].pc = "mid"
    /\ LET e == edit[c]
       IN \/ /\ edit' = [edit EXCEPT ![c] = EditEnded(e, RequestFailed)]
             /\ UNCHANGED collabs
          \/ /\ edit' = [edit EXCEPT ![c] = [e EXCEPT !.pc = "final",
                                                      !.puts = Append(@, e.local)]]
             /\ collabs' = [collabs EXCEPT !.list = e.local]
    /\ UNCHANGED watch
    /\ UNCHANGED <<baseVars, otherVars, jobVars, lst>>

\* lines 470 and 482, 724 and 736: the final list is PUT
CollabFinal(c) ==
    /\ edit[c].pc = "final"
    /\ LET e == edit[c]
           body == FinalBody(e, collabs.what, collabs.list)
       IN \/ /\ edit' = [edit EXCEPT ![c] = EditEnded(e, RequestFailed)]
             /\ UNCHANGED collabs
          \/ /\ edit' = [edit EXCEPT ![c] =
                            EditEnded([e EXCEPT !.puts = Append(@, body)],
                                      Ret("collaborators", ""))]
             /\ collabs' = [collabs EXCEPT !.list = body]
    /\ UNCHANGED watch
    /\ UNCHANGED <<baseVars, otherVars, jobVars, lst>>

\* A third party reads the collaborator list, once
Watch ==
    /\ ~watch.read
    /\ watch' = [read |-> TRUE, list |-> collabs.list,
                 during |-> {c \in Callers : edit[c].pc \in {"mid", "final"}}]
    /\ UNCHANGED <<collabs, edit>>
    /\ UNCHANGED <<baseVars, otherVars, jobVars, lst>>

NextCollab ==
    \/ \E c \in Callers : CollabStart(c)
    \/ \E c \in Callers : CollabMid(c)
    \/ \E c \in Callers : CollabFinal(c)
    \/ Watch

SpecCollab == InitCollab /\ [][NextCollab]_vars

-----------------------------------------------------------------------------
(* Listing projects and deployments *)

InitList ==
    /\ sess = SessionUnused
    /\ srv = 1
    /\ last = Idle(sess)
    /\ listing = NoListing /\ res = NoRes
    /\ revisions = NoRevisions /\ rres = NoRres
    /\ feed = <<>> /\ poll = NoPoll
    /\ depstate = NoDeployment /\ dpl = NoDpl
    /\ jobs = {} /\ runs = {} /\ jc = NoJc
    /\ CollabUnused
    /\ lst = NoLst /\ OthersUnused

\* The listing call sends its requests in order; each is answered, or it
\* raises and ends the call
Listed(op, by, arg, internal, n) ==
    LET reqs == ListRequests(op, Collaborators(op, arg), internal, n)
        l == [op |-> op, by |-> by, collaborators |-> arg, internal |-> internal,
              n |-> n, log |-> reqs, out |-> Ret("records", "")]
    IN {l} \cup { [l EXCEPT !.log = SubSeq(reqs, 1, k), !.out = RequestFailed] :
                    k \in 1..Len(reqs) }

\* session.project_list(...) / session.deployment_list(...), called by the
\* program with or without the collaborators argument
ListCall ==
    /\ \E op \in {"project_list", "deployment_list"},
          arg \in {"unset", "yes", "no"}, internal \in BOOLEAN, n \in 0..MaxRecords :
          lst' \in Listed(op, "caller", arg, internal, n)
    /\ UNCHANGED <<baseVars, otherVars, jobVars, collabVars>>

\* _id, line 310: the listing fetched to resolve an identifier
ResolveList ==
    /\ \E op \in {"project_list", "deployment_list"}, n \in 0..MaxRecords :
          lst' \in Listed(op, "_id", "unset", TRUE, n)
    /\ UNCHANGED <<baseVars, otherVars, jobVars, collabVars>>

NextList == ListCall \/ ResolveList

SpecList == InitList /\ [][NextList]_vars

-----------------------------------------------------------------------------
(* Normalizing a response *)

InitFormat ==
    /\ sess = SessionUnused
    /\ srv = 1
    /\ last = Idle(sess)
    /\ listing = NoListing /\ res = NoRes
    /\ revisions = NoRevisions /\ rres = NoRres
    /\ feed = <<>> /\ poll = NoPoll
    /\ depstate = NoDeployment /\ dpl = NoDpl
    /\ jobs = {} /\ runs = {} /\ jc = NoJc
    /\ CollabUnused
    /\ lst = NoLst
    /\ platform = NoPlatform /\ info = NoInfo /\ cli = NoCli /\ rst = NoRst
    /\ \E response \in Payloads, columns \in Orders(ColumnNames) :
          norm = [NoNorm EXCEPT !.response = response, !.columns = columns]

\* A call with format='dataframe' reaches line 196 with its parsed response
\* and the column list of the operation
FormatCall ==
    /\ ~norm.done
    /\ norm' = [norm EXCEPT !.done = TRUE,
                            !.out = FormatDataframe(norm.response, norm.columns)]
    /\ UNCHANGED <<baseVars, jobVars, collabVars, lst, joinVars, cli, rst>>

NextFormat == FormatCall

SpecFormat == InitFormat /\ [][NextFormat]_vars

-----------------------------------------------------------------------------
(* Listing and describing sessions and deployments *)

\* The record of an entity as the platform sends it
Raw(id, name, pid) ==
    [k \in {"id", "name", "project_url"} |->
        IF k = "id" THEN id ELSE IF k = "name" THEN name ELSE pid]

InitJoin ==
    /\ sess = SessionUnused
    /\ srv = 1
    /\ last = Idle(sess)
    /\ listing = NoListing /\ res = NoRes
    /\ revisions = NoRevisions /\ rres = NoRres
    /\ feed = <<>> /\ poll = NoPoll
    /\ depstate = NoDeployment /\ dpl = NoDpl
    /\ jobs = {} /\ runs = {} /\ jc = NoJc
    /\ CollabUnused
    /\ lst = NoLst
    /\ norm = NoNorm /\ cli = NoCli /\ rst = NoRst
    /\ info = NoInfo
    /\ \E type \in {"sessions", "deployments"}, n \in 0..MaxEnts :
       \E names \in [1..n -> EntNames], pids \in [1..n -> Pids] :
       \E held \in SUBSET Pids :
       \E projects \in [held -> ProjectNames] :
          platform = [type |-> type,
                      records |-> [i \in 1..n |-> Raw(i, names[i], pids[i])],
                      projects |-> projects]

\* session.session_list() / session.deployment_list()
EntityListCall ==
    /\ info' = [op |-> "list", id |-> 0, out |-> Ret("records", EntityList(platform))]
    /\ UNCHANGED <<baseVars, jobVars, collabVars, lst, norm, platform, cli, rst>>

\* session.session_info(id) / session.deployment_info(id)
EntityInfoCall ==
    /\ \E id \in 1..(MaxEnts + 1), quiet \in BOOLEAN :
          info' = [op |-> "info", id |-> id, out |-> EntityInfo(platform, id, quiet)]
    /\ UNCHANGED <<baseVars, jobVars, collabVars, lst, norm, platform, cli, rst>>

NextJoin == EntityListCall \/ EntityInfoCall

SpecJoin == InitJoin /\ [][NextJoin]_vars

-----------------------------------------------------------------------------
(* The command line and its REPL *)

InitCli ==
    /\ sess = SessionUnused
    /\ srv = 1
    /\ last = Idle(sess)
    /\ listing = NoListing /\ res = NoRes
    /\ revisions = NoRevisions /\ rres = NoRres
    /\ feed = <<>> /\ poll = NoPoll
    /\ depstate = NoDeployment /\ dpl = NoDpl
    /\ jobs = {} /\ runs = {} /\ jc = NoJc
    /\ CollabUnused
    /\ lst = NoLst
    /\ norm = NoNorm /\ platform = NoPlatform /\ info = NoInfo
    /\ cli = NoCli /\ rst = NoRst

\* param_callback, lines 45-48: an option of the command line is read
Option ==
    /\ \E param \in Params : \E value \in Values(param) :
          /\ param = "filter" /\ param \in DOMAIN cli.options =>
                Len(cli.options[param]) < MaxFilter
          /\ LET a == AddParam(cli.options, param, value)
             IN cli' = [cli EXCEPT !.options = a.options, !.op = "add_param",
                                   !.out = a.out]
    /\ UNCHANGED <<baseVars, jobVars, collabVars, lst, norm, joinVars, rst>>

\* stash_defaults, lines 22-26, called when the REPL starts
StashDefaults ==
    /\ ~cli.has_defaults
    /\ cli' = [cli EXCEPT !.has_defaults = TRUE, !.defaults = cli.options,
                          !.stashed = cli.options, !.options = Empty,
                          !.op = "stash_defaults", !.out = Ret("", "")]
    /\ UNCHANGED <<baseVars, jobVars, collabVars, lst, norm, joinVars, rst>>

\* print_output, format.py line 271: a command asks for its options
Options ==
    /\ LET g == GetOptions(cli)
       IN cli' = [cli EXCEPT !.defaults = g.defaults, !.returned = g.returned,
                             !.given = cli.options,
                             !.op = "get_options", !.out = Ret("", "")]
    /\ UNCHANGED <<baseVars, jobVars, collabVars, lst, norm, joinVars, rst>>

\* The REPL goes on to the next command line, whose options are read into
\* a dict of their own or into the one the last command left
NextCommand ==
    /\ cli.has_defaults
    /\ cli.op = "get_options"
    /\ \E kept \in {cli.options, Empty} :
          cli' = [cli EXCEPT !.options = kept, !.op = "command", !.out = Ret("", "")]
    /\ UNCHANGED <<baseVars, jobVars, collabVars, lst, norm, joinVars, rst>>

NextCli == Option \/ StashDefaults \/ Options \/ NextCommand

SpecCli == InitCli /\ [][NextCli]_vars

-----------------------------------------------------------------------------
(* Restarting a deployment that has collaborators, or none *)

InitRestart ==
    /\ sess = SessionUnused
    /\ srv = 1
    /\ last = Idle(sess)
    /\ listing = NoListing /\ res = NoRes
    /\ revisions = NoRevisions /\ rres = NoRres
    /\ feed = <<>> /\ poll = NoPoll
    /\ depstate = NoDeployment /\ dpl = NoDpl
    /\ jobs = {} /\ runs = {} /\ jc = NoJc
    /\ CollabUnused
    /\ lst = NoLst
    /\ norm = NoNorm /\ platform = NoPlatform /\ info = NoInfo
    /\ cli = NoCli
    /\ \E n \in 0..MaxCollabs : \E ids \in [1..n -> Ids] :
       \E perms \in [1..n -> {"r", "rw"}] :
          /\ \A i, j \in 1..n : ids[i] = ids[j] => i = j
          /\ rst = [NoRst EXCEPT !.old =
                       [exists |-> TRUE,
                        collabs |-> [i \in 1..n |-> Collab(ids[i], "user", perms[i])]]]

\* session.deployment_restart(ident, wait=...), up to the first sleep of the
\* loop of deployment_start
RestartCall ==
    /\ rst.pc = "idle"
    /\ \/ \E answered \in 0..(Len(RestartRequests) - 1) :
             rst' = RestartFailed(rst, answered)
       \/ \E wait \in BOOLEAN : rst' \in RestartAnswered(rst, wait)
    /\ UNCHANGED <<baseVars, jobVars, collabVars, lst, norm, joinVars, cli>>

\* One turn of the loop of deployment_start after its sleep, lines 758-760
RestartPoll ==
    /\ rst.pc = "loop"
    /\ LET r == [rst EXCEPT !.fetches = IF @ < MaxPolls THEN @ + 1 ELSE @]
       IN \/ rst' = [r EXCEPT !.pc = "done", !.out = RequestFailed]
          \/ IF DeployWaiting(rst.wait, rst.new.state)
             THEN rst' = r
             ELSE rst' = [r EXCEPT !.pc = "done",
                                  !.out = DeployFinish(0, rst.wait, rst.new.state).out]
    /\ UNCHANGED <<baseVars, jobVars, collabVars, lst, norm, joinVars, cli>>

\* The platform brings the new deployment up, or fails it
RestartAdvance ==
    /\ rst.new.exists /\ rst.pc # "done"
    /\ \E state \in DepStates :
          /\ \/ rst.new.state = "initial" /\ state \in {"starting", "failed"}
             \/ rst.new.state = "starting" /\ state \in {"started", "failed"}
          /\ rst' = [rst EXCEPT !.new.state = state]
    /\ UNCHANGED <<baseVars, jobVars, collabVars, lst, norm, joinVars, cli>>

NextRestart == RestartCall \/ RestartPoll \/ RestartAdvance

SpecRestart == InitRestart /\ [][NextRestart]_vars

-----------------------------------------------------------------------------
(* Reading the trace of the last call *)

Min(S) == CHOOSE x \in S : \A y \in S : x <= y
Max(S) == CHOOSE x \in S : \A y \in S : y <= x

\* The positions of the events of one kind of session `who` in the last call
Evs(who, kind) ==
    {i \in DOMAIN last.tr : last.tr[i][1] = who /\ last.tr[i][2] = kind}
EvsArg(who, kind, arg) == {i \in Evs(who, kind) : last.tr[i][3] = arg}
\* The answer to the send at position i is the next event
Answer(i) == last.tr[i + 1][3]

\* The header the session sends corresponds to the credential it holds
HeaderCurrent(s) ==
    IF s.role = "user"
    THEN \E c \in s.cookies : c.name = "_xsrf" /\ Header("x-xsrftoken", c.tok) \in s.headers
    ELSE s.sdata.k = "tok" /\ Header("Authorization", s.sdata.tok) \in s.headers

\* The credential file holds what the session holds now
FileCurrent(s) == s.file = Save(s).file

\* The last call was a request of session last.who on endpoint ep: a plain
\* request, or the logout request that a user session's disconnect() makes
IsRequest(ep) ==
    \/ last.op = "request" /\ ep = "call"
    \/ last.op = "disconnect" /\ last.who = "usr" /\ ep = "logout"

Unauthorized(s, resp) == resp = "unauth" \/ IsLogin(s, resp)

-----------------------------------------------------------------------------
(* C1..C7: the session *)

\* C1: within one request, authorize() is invoked at most once and the call
\* is sent at most twice.  A connected session sends first; on a 401 or a
\* login form it authorizes once and, authorize having returned, sends
\* exactly once more; on any other answer it neither authorizes nor sends
\* again.  A session that is not connected authorizes once before its only
\* send.  When authorize raises, the request ends there with no further send.
C1_OneReauthTwoSends ==
    \A ep \in {"call", "logout"} : IsRequest(ep) =>
        LET who == last.who
            sends == EvsArg(who, "send", ep)
            auths == Evs(who, "authorize")
            done == Evs(who, "authorized")
        IN /\ Cardinality(auths) <= 1
           /\ Cardinality(sends) <= 2
           /\ ~last.pre[who].connected =>
                /\ Cardinality(auths) = 1
                /\ \A i \in sends : \E j \in done : j < i
                /\ Cardinality(sends) = Cardinality(done)
           /\ last.pre[who].connected =>
                /\ sends # {}
                /\ \A j \in auths : Min(sends) < j
                /\ IF Unauthorized(last.pre[who], Answer(Min(sends)))
                   THEN /\ Cardinality(auths) = 1
                        /\ Cardinality(sends) = 1 + Cardinality(done)
                   ELSE /\ auths = {}
                        /\ Cardinality(sends) = 1

\* C1 witness: a connected session was answered 401, authorized again and
\* sent the call a second time.
C1_Witness ==
    /\ last.op = "request"
    /\ last.pre[last.who].connected
    /\ Cardinality(EvsArg(last.who, "send", "call")) = 2
    /\ Cardinality(Evs(last.who, "authorized")) = 1
    /\ Answer(Min(EvsArg(last.who, "send", "call"))) = "unauth"

\* C2: between calls, connected is True exactly when the credential is held
\* (the _xsrf cookie of a user session, the access_token of an admin session).
C2_ConnectedIffCredential ==
    \A who \in Who : sess[who].alive =>
        (sess[who].connected <=> Connected(sess[who]))

\* C3 as stated: a supplied password that is rejected is tried twice before
\* authorize() raises the invalid-credentials error.
C3_RetriesOnce ==
    (/\ last.op = "authorize"
     /\ last.pre[last.who].password = "supplied"
     /\ last.out = Raise("AEException: invalid"))
    => Cardinality(Evs(last.who, "connect")) = 2

\* C3 amended: with a supplied password authorize() makes exactly one login
\* attempt; if that attempt leaves no credential it raises the
\* invalid-credentials error at once, without a retry, and it raises that
\* error in no other case.
C3_NoRetry ==
    (last.op = "authorize" /\ last.pre[last.who].password = "supplied") =>
        /\ Cardinality(Evs(last.who, "connect")) = 1
        /\ Cardinality(Evs(last.who, "login")) = 1
        /\ (last.out = Raise("AEException: invalid"))
             <=> (EvsArg(last.who, "login", "invalid") # {})
        /\ (last.out.kind = "ret") <=> (EvsArg(last.who, "login", "valid") # {})

\* C3 witness: a supplied password was rejected and the error raised.
C3_Witness ==
    /\ last.op = "authorize"
    /\ last.pre[last.who].password = "supplied"
    /\ EvsArg(last.who, "connect", "reject") # {}
    /\ last.out = Raise("AEException: invalid")

\* C4: with no password supplied, authorize() prompts and logs in until a
\* login yields a credential.  It never raises the invalid-credentials error
\* (only the caller's abort of the prompt ends it without success); the first
\* prompt is plain and every prompt after a rejected login is announced as
\* 'Invalid username or password; please try again.'; the first valid login
\* ends it, connected, with the header set and, if persistent, the state saved.
C4_PromptUntilValid ==
    (last.op = "authorize" /\ last.pre[last.who].password = "none") =>
        LET who == last.who
            prompts == Evs(who, "prompt")
            bad == EvsArg(who, "login", "invalid")
            good == EvsArg(who, "login", "valid")
        IN /\ last.out # Raise("AEException: invalid")
           /\ last.out.kind = "raise" =>
                last.out = Raise("KeyboardInterrupt") /\ good = {}
           /\ \A i \in prompts :
                last.tr[i][3] = IF \E j \in bad : j < i
                                THEN "invalid, try again" ELSE "first"
           /\ \A j \in bad : j + 1 \in prompts
           /\ Cardinality(Evs(who, "connect")) = Cardinality(bad) + Cardinality(good)
           /\ Cardinality(good) <= 1
           /\ \A g \in good : \A i \in prompts \cup bad : i < g
           /\ last.out.kind = "ret" =>
                /\ good # {}
                /\ sess[who].connected
                /\ HeaderCurrent(sess[who])
                /\ sess[who].persist =>
                     FileCurrent(sess[who]) /\ EvsArg(who, "save", "login") # {}

\* C4 witness: a prompted password was rejected, the next one accepted.
C4_Witness ==
    /\ last.op = "authorize"
    /\ last.pre[last.who].password = "none"
    /\ EvsArg(last.who, "prompt", "invalid, try again") # {}
    /\ last.out.kind = "ret"
    /\ sess[last.who].persist

\* C5: a request whose second response (the one to the call sent again after
\* the re-authentication) signals unauthorized, as a 401 or as a login form,
\* ends in an error and returns nothing.
C5_SecondUnauthorizedRaises ==
    (/\ last.op = "request"
     /\ Cardinality(EvsArg(last.who, "send", "call")) = 2
     /\ Unauthorized(sess[last.who], Answer(Max(EvsArg(last.who, "send", "call")))))
    => last.out.kind = "raise"

\* C6: disconnect() can be called from every state of the session (connected,
\* never connected, already disconnected): it ends only by returning or with
\* an error of the logout request or of the login that request needed, and
\* when it returns the session is not connected, its headers and its cookie
\* jar are empty, an admin session holds no token data, a persistent
\* session's file holds the cleared state, and a user session sent the
\* logout request before it cleared its local state.
C6_DisconnectClears ==
    last.op = "disconnect" =>
        LET who == last.who
            s == sess[who]
        IN /\ last.out # Raise("AttributeError")
           /\ who = "adm" => last.out.kind = "ret"
           /\ last.out.kind = "ret" =>
                /\ ~s.connected
                /\ ~Connected(s)
                /\ s.headers = {}
                /\ s.cookies = {}
                /\ s.role = "admin" => s.sdata = EmptyData
                /\ s.persist =>
                     /\ s.file.exists
                     /\ s.file.jar = {}
                     /\ s.file.sdata.k # "tok"
                     /\ FileCurrent(s)
                /\ who = "usr" =>
                     \E i \in EvsArg(who, "send", "logout") :
                         \E j \in Evs(who, "clear") : i < j

\* The cookies minted for user u
Minted(jar, u) == {c \in jar : c.user = u}

\* C7 as stated: after impersonate(user), returned or raised, the admin
\* session's headers are those it had before the call, its jar holds none of
\* the user's cookies, and the jar returned holds them.
C7_HeadersAsBeforeCall ==
    last.op = "impersonate" =>
        /\ sess["adm"].headers = last.pre["adm"].headers
        /\ Minted(sess["adm"].cookies, last.arg) = {}
        /\ last.out.kind = "ret" => Minted(last.out.jar, last.arg) # {}

\* C7 amended: after impersonate(user), returned or raised, the admin
\* session's jar holds none of the user's cookies and the jar returned holds
\* them; once the user lookup has returned, the headers are restored to those
\* the session had at that point, which are the headers from before the call
\* unless the lookup itself re-authenticated (then they carry the new token).
C7_HeadersAsAfterLookup ==
    last.op = "impersonate" =>
        LET snaps == Evs("adm", "snapshot")
        IN /\ Minted(sess["adm"].cookies, last.arg) = {}
           /\ sess["adm"].cookies = {}
           /\ last.out.kind = "ret" =>
                /\ snaps # {}
                /\ {c.name : c \in Minted(last.out.jar, last.arg)}
                     = {"kc", "sess", "_xsrf"}
           /\ snaps # {} =>
                /\ sess["adm"].headers = last.snap
                /\ (\A j \in Evs("adm", "authorized") : \E i \in snaps : i < j)
                     => sess["adm"].headers = last.pre["adm"].headers
                /\ \A h \in sess["adm"].headers : h.name = "Authorization"

\* C7 witness: impersonate returned the user's jar after its user lookup had
\* to authenticate, so the headers differ from those before the call.
C7_Witness ==
    /\ last.op = "impersonate"
    /\ last.out.kind = "ret"
    /\ Minted(last.out.jar, last.arg) # {}
    /\ sess["adm"].headers # last.pre["adm"].headers

-----------------------------------------------------------------------------
(* C8..C10: entity resolution *)

\* The last resolution got as far as fetching and filtering the listing
Resolved == res.type # "" /\ res.out.exc # "ValueError: ID type"

\* A pattern field that is not specified matches anything
Glob(pat, value) == pat = <<>> \/ fnmatch(value, pat)

\* The records the claim says match: every field of the identifier applied
MatchStated(I, R) ==
    /\ Glob(I.owner, R.owner)
    /\ Glob(I.name, R.name)
    /\ Glob(I.id, R.id)
    /\ Glob(I.pid, ProjectId(R))

\* The records that match in the code: the id is applied only when it is an
\* id of the requested entity type, the pid only to entities other than projects
MatchAmended(type, I, R) ==
    /\ Glob(I.owner, R.owner)
    /\ Glob(I.name, R.name)
    /\ (I.id # <<>> /\ IdType(I.id) = Tval(type)) => fnmatch(R.id, I.id)
    /\ type # "projects" => Glob(I.pid, ProjectId(R))

\* C8: with quiet, a resolution with no match or with several matches
\* returns the empty result (None, None) and raises nothing.
C8_QuietReturnsEmpty ==
    (Resolved /\ res.quiet /\ Len(res.out.matches) # 1) =>
        res.out.kind = "ret" /\ res.out.none

\* C9: without quiet, a record is returned if and only if exactly one entry
\* of the listing matches, and it is that entry; no match raises an error
\* naming the type and the owner/name/id tried; several matches raise an
\* error listing each match, in listing order, and nothing else.
C9_OneMatchOrError ==
    (Resolved /\ ~res.quiet) =>
        LET hits == SelectSeq(listing.records,
                              LAMBDA R : MatchAmended(res.type, res.ident, R))
            o == res.out
        IN /\ (o.kind = "ret") <=> (Len(hits) = 1)
           /\ o.kind = "ret" =>
                ~o.none /\ o.rec = hits[1] /\ o.id = hits[1].id
           /\ o.kind = "raise" =>
                /\ o.exc = "ValueError"
                /\ o.msg.type = res.type
                /\ o.msg.triple = <<Patterns(res.type, res.ident).owner,
                                    Patterns(res.type, res.ident).name,
                                    Patterns(res.type, res.ident).id>>
                /\ o.msg.pfx = IF Len(hits) = 0 THEN "No" ELSE "Multiple"
                /\ Len(o.msg.candidates) = Len(hits)
                /\ \A i \in 1..Len(hits) : o.msg.candidates[i] = FromRecord(hits[i])

\* C9 witness: two projects named "de" of different owners, resolved by
\* name alone, give an error with exactly two candidates.
C9_Witness ==
    /\ res.type = "projects" /\ ~res.quiet
    /\ res.ident = [owner |-> Star, name |-> Str("d", "e"), id |-> <<>>, pid |-> <<>>]
    /\ Len(listing.records) = 2
    /\ res.out.kind = "raise" /\ res.out.msg.pfx = "Multiple"
    /\ Len(res.out.msg.candidates) = 2
    /\ res.out.msg.candidates[1][1] # res.out.msg.candidates[2][1]

\* C10 as stated: the matches are exactly the records that all four fields
\* of the identifier match, in listing order.
C10_FilterAllFields ==
    Resolved =>
        res.out.matches = SelectSeq(listing.records,
                                    LAMBDA R : MatchStated(res.ident, R))

\* C10 amended: the matches are exactly the listing's records, in listing
\* order and unchanged, that the identifier's owner, name, id and pid match,
\* where an unspecified field matches anything, the id is applied only when
\* it is an id of the requested entity type, the pid is applied only to
\* entity types other than projects, and a record without project_id is
\* matched as the empty string.
C10_FilterAsCoded ==
    Resolved =>
        res.out.matches = SelectSeq(listing.records,
                                    LAMBDA R : MatchAmended(res.type, res.ident, R))

\* C10 witness: a session resolved by a project id: the id is not applied,
\* the pid selects among the listing's records.
C10_Witness ==
    /\ Resolved
    /\ res.type = "sessions"
    /\ res.ident.pid # <<>>
    /\ Len(res.out.matches) = 1
    /\ Len(listing.records) = 2

-----------------------------------------------------------------------------
(* C11..C13: round trip and revisions *)

\* The identifiers built from a record's own fields: from its id, from its
\* owner and name, and from owner, name and id
IdentsOf(R) ==
    { [owner |-> <<>>, name |-> <<>>, id |-> R.id, pid |-> <<>>],
      [owner |-> R.owner, name |-> R.name, id |-> <<>>, pid |-> <<>>],
      [owner |-> R.owner, name |-> R.name, id |-> R.id, pid |-> <<>>] }

\* C11: for every record of the project listing, resolving an identifier
\* built from the record's own id, from its owner/name or from its
\* owner/name/id gives exactly one match, and the match is that record.
C11_RoundTrip ==
    (Resolved /\ res.type = "projects") =>
        \A i \in 1..Len(listing.records) :
            res.ident \in IdentsOf(listing.records[i]) =>
                res.out.matches = <<listing.records[i]>>

\* The last revision resolution resolved its project and fetched the list
RevResolved ==
    /\ rres # NoRres
    /\ rres.fetch = "json"
    /\ Id("projects", IdentOfProject(rres.ident), rres.quiet, listing.records).kind = "ret"

\* C12: with an explicit revision pattern, the revisions of the resolved
\* project are treated as entity resolution treats a listing: exactly one
\* matching revision is returned; none fails with a not-found error; several
\* fail with an ambiguity error that lists the matching revisions; with
\* quiet, none or several give an empty revision result and no error.
C12_RevisionOutcomes ==
    (RevResolved /\ ~IsLatest(rres.ident)) =>
        LET hits == SelectSeq(revisions,
                              LAMBDA r : fnmatch(r.name, rres.ident.revision))
            o == rres.out
        IN /\ Len(hits) = 1 =>
                /\ o.kind = "ret" /\ o.has_rrec
                /\ o.rrec = hits[1] /\ o.rev = hits[1].name
           /\ (Len(hits) # 1 /\ rres.quiet) =>
                o.kind = "ret" /\ ~o.has_rrec /\ o.rev = <<>>
           /\ (Len(hits) = 0 /\ ~rres.quiet) =>
                /\ o.kind = "raise" /\ o.exc = "ValueError"
                /\ o.msg.pfx = "No" /\ o.msg.pattern = rres.ident.revision
           /\ (Len(hits) > 1 /\ ~rres.quiet) =>
                /\ o.kind = "raise" /\ o.exc = "ValueError"
                /\ o.msg.pfx = "Multiple"
                /\ o.msg.candidates = [i \in 1..Len(hits) |-> hits[i].name]

-----------------------------------------------------------------------------
(* C14..C17: the action poller *)

\* C14: _wait returns only a status whose done or error is true, and the
\* status has the action id of the status it was given; given a status that
\* is terminal already, it returns that status and fetches nothing.
C14_ReturnsTerminal ==
    /\ poll.waited =>
          /\ poll.status.done \/ poll.status.error
          /\ poll.status.id = poll.given.id
    /\ (poll.wait /\ poll.given # NoStatus /\ ~Waiting(poll.given)) =>
          /\ poll.polls = 0
          /\ poll.status = poll.given
          /\ poll.waited

\* C14 witness: _wait returned the failed status of the action after it had
\* polled a feed that holds other activity.
C14_Witness ==
    /\ poll.waited
    /\ poll.polls >= 2
    /\ poll.status = Failed
    /\ \E i \in DOMAIN feed : feed[i] = Other

\* C15: an awaited action that a bounded number of newer unrelated entries
\* precede in the feed is found by asking for a longer page after every
\* miss: the wait ends, with the terminal status of the action unless a
\* fetch raised.
C15_EventuallyFound ==
    (poll.pc = "loop") ~>
        (/\ poll.pc = "done"
         /\ \/ poll.seen = "raise"
            \/ poll.waited /\ ~Waiting(poll.status) /\ poll.status.id = poll.given.id)

\* C15 witness: the action was found on the third poll only, with pages of
\* one, two and three entries, and returned done.
C15_Witness ==
    /\ poll.pc = "done"
    /\ poll.sizes = <<1, 2, 3>>
    /\ poll.status = Done
    /\ poll.out.kind = "ret"

\* C16: a fetch of the poller that ends in an error, a final response of
\* status 400 or more in particular, ends the poll at once with that error
\* raised to the caller; a fetch is made only while the status held is not
\* terminal, the last fetch having missed the action or found it pending.
C16_ErrorEndsPoll ==
    /\ [](/\ poll.seen = "raise" => poll.pc = "done" /\ poll.out.kind = "raise"
          /\ (poll.polls > 0 /\ poll.resp \in {"unauth", "error"}) =>
                /\ poll.seen = "raise"
                /\ poll.pc = "done"
                /\ poll.out.kind = "raise"
          /\ (poll.polls > 0 /\ poll.out.val = "AEUnexpectedResponseError") =>
                poll.resp \in {"unauth", "error"} /\ poll.out.body = poll.resp)
    /\ [][(poll.pc = "loop" /\ poll' # poll) =>
            /\ Waiting(poll.status)
            /\ poll.seen \in {"none", "missing", "pending"}]_vars

\* C16 witness: the second fetch was answered with a status of 400 or more
\* and the error reached the caller.
C16_Witness ==
    /\ poll.polls = 2
    /\ poll.resp = "error"
    /\ poll.out = RaiseOn("AEUnexpectedResponseError", "error")

\* C17: when the awaited action ends with error set, project_upload and
\* session_start raise an error that carries the server's message and return
\* no record, and the failure leaves the session's connected flag and its
\* credential state as they were when the last request returned.
C17_ActionErrorRaises ==
    (poll.pc = "done" /\ poll.waited /\ poll.status.error) =>
        /\ poll.out.kind = "raise"
        /\ poll.out.val = IF poll.op = "project_upload"
                          THEN "RuntimeError: Error processing upload"
                          ELSE "RuntimeError: Error completing session start"
        /\ poll.out.body = poll.status.message
        /\ poll.after = {sess["usr"]}

\* C17 witness: session_start awaited an action that failed with the
\* server's message while the session was connected.
C17_Witness ==
    /\ poll.pc = "done" /\ poll.waited
    /\ poll.op = "session_start"
    /\ poll.polls >= 1
    /\ poll.status = Failed
    /\ poll.out.body = "boom"
    /\ sess["usr"].connected

-----------------------------------------------------------------------------
(* C18: deployment_start *)

-----------------------------------------------------------------------------
(* C19, C20: errors of a request, persistence *)

\* The request of the last call reached its final response: it sent the
\* call and did not end inside authorize()
ReachedFinal(who, ep) ==
    /\ EvsArg(who, "send", ep) # {}
    /\ Evs(who, "authorize") = {} \/ Evs(who, "authorized") # {}
\* The final response of the request: the answer to its last send
FinalResponse(who, ep) == Answer(Max(EvsArg(who, "send", ep)))

\* C19: a request whose final response has a status of 400 or more (401 or
\* any other) raises AEUnexpectedResponseError for that response and returns
\* nothing; a request whose final response has a lower status never raises
\* that error.  (A request that ends inside authorize() has no final
\* response: it ends with the error of the login.)
C19_ErrorStatusRaises ==
    \A ep \in {"call", "logout"} : (IsRequest(ep) /\ ReachedFinal(last.who, ep)) =>
        LET final == FinalResponse(last.who, ep)
        IN IF final \in {"unauth", "error"}
           THEN last.out = RaiseOn("AEUnexpectedResponseError", final)
           ELSE last.out.val # "AEUnexpectedResponseError"

\* C19 witness: a request was answered 401, the session authorized again,
\* and the call sent again was answered with another status of 400 or more.
C19_Witness ==
    /\ last.op = "request"
    /\ Cardinality(EvsArg(last.who, "send", "call")) = 2
    /\ Evs(last.who, "authorized") # {}
    /\ FinalResponse(last.who, "call") = "error"
    /\ last.out.kind = "raise"

\* C20: on a persistent session every authorize() that succeeds has saved
\* the credential state when it returns, and every disconnect() has saved the
\* cleared state when it ends; on a session that is not persistent no call
\* saves anything, and no call loads the state again after construction.
C20_SavesAndLoads ==
    \A who \in Who : (last.op # "idle" /\ last.who = who) =>
        LET s == sess[who]
        IN /\ (last.op = "authorize" /\ last.out.kind = "ret" /\ s.persist) =>
                EvsArg(who, "save", "login") # {} /\ FileCurrent(s)
           /\ (last.op = "disconnect" /\ s.persist) =>
                /\ EvsArg(who, "save", "cleared") # {}
                /\ s.file.exists /\ s.file.jar = {} /\ s.file.sdata.k # "tok"
           /\ ~s.persist =>
                Evs(who, "save") = {} /\ s.file = last.pre[who].file
           /\ Evs(who, "load") = {}

-----------------------------------------------------------------------------
(* C21, C22: a session constructed from a saved credential file *)

\* The requests a call of session `who` put on the network
Network(who) == Evs(who, "refresh") \cup Evs(who, "send") \cup Evs(who, "connect")

\* The call sent nothing before a login that authorize() found valid, and
\* began with authorize()
LoginFirst(who) ==
    /\ Evs(who, "authorize") # {}
    /\ Evs(who, "send") # {} =>
          /\ EvsArg(who, "login", "valid") # {}
          /\ Min(EvsArg(who, "login", "valid")) < Min(Evs(who, "send"))
    /\ Evs(who, "abort") = {} =>
          /\ Evs(who, "connect") # {}
          /\ Min(Network(who)) = Min(Evs(who, "connect"))

\* C21: the constructor of a persistent admin session whose token file holds
\* a refresh token posts exactly one token refresh and nothing else; when the
\* refresh is refused the constructor still returns, the session is not
\* connected, and a request made on the session in that state logs in with
\* the password before it sends anything.  The constructor of a user session
\* puts nothing on the network.
C21_RefreshOnce ==
    /\ last.op = "new" =>
          LET who == last.who
              s == sess[who]
              f == last.pre[who].file
          IN /\ last.out.kind = "ret"
             /\ who = "usr" => Network(who) = {}
             /\ who = "adm" =>
                   /\ Network(who) = Evs(who, "refresh")
                   /\ Cardinality(Evs(who, "refresh")) =
                         IF s.persist /\ f.exists /\ f.sdata.k = "tok" THEN 1 ELSE 0
                   /\ EvsArg(who, "refresh", "refused") # {} =>
                         ~s.connected /\ ~Connected(s) /\ s.headers = {}
    /\ (last.op = "request" /\ last.who = "adm" /\ ~last.pre["adm"].connected) =>
          LoginFirst("adm")

\* C21 witness: a request on a persistent admin session in the state the
\* constructor leaves when the refresh of the saved token is refused; the
\* request logged in with the password and was answered
C21_Witness ==
    /\ last.op = "request" /\ last.who = "adm"
    /\ last.pre["adm"] \in
          { Construct("admin", TRUE, "supplied", f, t, FALSE) :
              f \in {g \in AdmFiles : g.sdata.k = "tok"}, t \in 1..MaxTok }
    /\ EvsArg("adm", "connect", "accept") # {}
    /\ last.out.kind = "ret"

\* C22: a user session constructed from a cookie file that yields no _xsrf
\* cookie is not connected, and a request made on the session in that state
\* begins with authorize() and sends the call only after a login that
\* authorize() found valid.
C22_StaleFileLogsIn ==
    /\ (last.op = "new" /\ last.who = "usr") =>
          LET s == sess["usr"]
              f == last.pre["usr"].file
          IN (s.persist /\ f.exists /\ ~\E c \in f.jar : c.name = "_xsrf") =>
                ~s.connected /\ s.headers = {}
    /\ (last.op = "request" /\ last.who = "usr" /\ ~last.pre["usr"].connected) =>
          LoginFirst("usr")

\* C22 witness: a request on a persistent user session in the state the
\* constructor leaves for a cookie file without an _xsrf cookie; the request
\* logged in, sent the call and was answered
C22_Witness ==
    /\ last.op = "request" /\ last.who = "usr"
    /\ last.pre["usr"] \in
          { Construct("user", TRUE, pw, f, 1, FALSE) :
              pw \in {"supplied", "none"},
              f \in {g \in UsrFiles : g.exists /\ ~\E c \in g.jar : c.name = "_xsrf"} }
    /\ EvsArg("usr", "connect", "accept") # {}
    /\ Evs("usr", "send") # {}
    /\ last.out.kind = "ret"

-----------------------------------------------------------------------------
(* C30: teardown *)

\* C30: when a connected session that is not persistent is torn down it is
\* disconnected: a user session sends the logout, and the credentials the
\* object holds are cleared; a persistent session, and a session that is
\* not connected, is left as it was, its credential file included.
C30_TeardownDisconnects ==
    last.op = "del" =>
        LET who == last.who
            before == last.pre[who]
            s == sess[who]
        IN IF ~before.persist /\ before.connected
           THEN /\ Evs(who, "disconnect") # {}
                /\ who = "usr" => EvsArg(who, "send", "logout") # {}
                /\ s.cookies = {} /\ s.headers = {} /\ ~s.connected
                /\ who = "adm" => s.sdata.k # "tok"
                /\ s.file = before.file
           ELSE /\ last.tr = << <<who, "del", "">> >>
                /\ s = [before EXCEPT !.alive = FALSE]

-----------------------------------------------------------------------------
(* C23, C24, C25: job_create *)

\* The names of the jobs and runs the platform listed when job_create was
\* called
NamesAtCall == NamesOf(jc.jobs0, jc.runs0)

\* C23: when no name is given, the name job_create posts is not the name of
\* a job or run listed: it is the base name if that is free, and otherwise
\* the base name with the least counter k >= 1 that makes it free.
C23_GeneratedNameFree ==
    (jc.name = NoName /\ jc.posted # NoName) =>
        /\ jc.posted \notin NamesAtCall
        /\ Base \notin NamesAtCall => jc.posted = Base
        /\ Base \in NamesAtCall =>
              \E k \in 1..Cardinality(NamesAtCall) :
                 /\ jc.posted = Suffixed(Base, k)
                 /\ \A j \in 1..(k - 1) : Suffixed(Base, j) \in NamesAtCall

\* C23 witness: the base name and its first counters were all taken, and the
\* job was created under the next one
C23_Witness ==
    /\ jc.name = NoName /\ jc.created
    /\ Len(jc.posted) = 2 /\ jc.posted[2] = MaxJobs + MaxRuns
    /\ Cardinality(NamesAtCall) = MaxJobs + MaxRuns

\* C24: job_create called with a name that an existing job has still makes
\* a new job under a name of its own: the name it posts is not the name of
\* a listed job, and once the job is made the job listing and the run
\* listing have each grown by one and the existing jobs are kept.
C24_SuppliedNameMadeUnique ==
    (jc.name # NoName /\ jc.name \in {j.name : j \in jc.jobs0} /\ jc.posted # NoName) =>
        /\ jc.posted \notin {j.name : j \in jc.jobs0}
        /\ (jc.pc = "done" /\ jc.out.kind = "ret" /\ jc.run /\ ~jc.cleanup) =>
              /\ jc.jobs0 \subseteq jobs
              /\ Cardinality(jobs) = Cardinality(jc.jobs0) + 1
              /\ Cardinality(runs) = Cardinality(jc.runs0) + 1

\* C25: job_create with run, wait and cleanup set asks for the job to be
\* deleted only when the run of the job is 'completed' or 'error', and no
\* run leaves the run listing; when it returns, the job it made is not
\* listed, the jobs listed before still are, and the run is listed.
C25_CleanupAfterRun ==
    (jc.run /\ jc.wait /\ jc.cleanup) =>
        /\ (\E i \in DOMAIN jc.log : jc.log[i] = "delete job") =>
              /\ jc.delstate \in {"completed", "error"}
              /\ jc.state = jc.delstate
        /\ jc.runs0 \subseteq runs
        /\ jc.created => \E r \in runs : r.job = NewId
        /\ (jc.pc = "done" /\ jc.out.kind = "ret") =>
              /\ jobs = jc.jobs0
              /\ jc.log[Len(jc.log)] = "delete job"
              /\ \E r \in runs : r.job = NewId /\ r.state \in {"completed", "error"}

\* C25 witness: the run was still running when the job was made; job_create
\* polled it, deleted the job once the run had completed, and returned
C25_Witness ==
    /\ jc.run /\ jc.wait /\ jc.cleanup
    /\ jc.pc = "done" /\ jc.out.kind = "ret"
    /\ jc.fetches >= 2
    /\ jc.delstate = "completed"
    /\ jc.jobs0 # {}

-----------------------------------------------------------------------------
(* C26, C27, C28: collaborator add and remove *)

\* No other caller has edited the collaborators
Alone(c) == \A o \in Callers \ {c} : edit[o].pc = "idle"

\* The list an edit puts last
LastPut(e) == e.puts[Len(e.puts)]

\* The list an edit is to put last, worked out from the list it fetched
FromFetched(e) ==
    Without(e.fetched, e.userid)
    \o (IF e.op = "add"
        THEN NewEntries(collabs.what, e.userid, e.group, e.read_only)
        ELSE <<>>)

\* C26: an add that no other caller interferes with and that returns has
\* put a final list that holds each id it was given exactly once, with the
\* type and permission asked for, and every other entry of the list it
\* fetched unchanged; it put the list without the ids first if and only if
\* one of the ids was a collaborator already, and it put nothing else.
C26_AddSubmitsUnion ==
    \A c \in Callers :
        LET e == edit[c]
            U == Range(e.userid)
            final == LastPut(e)
            type == IF e.group THEN "group" ELSE "user"
            perm == IF collabs.what = "projects" /\ ~e.read_only THEN "rw" ELSE "r"
        IN (e.op = "add" /\ e.pc = "done" /\ e.out.kind = "ret" /\ Alone(c)) =>
              /\ \A u \in U :
                    /\ Cardinality({i \in DOMAIN final : final[i].id = u}) = 1
                    /\ \A i \in DOMAIN final :
                          final[i].id = u => final[i] = Collab(u, type, perm)
              /\ Without(final, e.userid) = Without(e.fetched, e.userid)
              /\ collabs.list = final
              /\ IF U \cap IdsOf(e.fetched) # {}
                 THEN e.puts = <<Without(e.fetched, e.userid), final>>
                 ELSE e.puts = <<final>>

\* C27: a remove that no other caller interferes with and whose fetch is
\* answered: if a target is not in the list fetched it raises an error that
\* names the missing ids, puts nothing, and the platform's list is as
\* fetched; if every target is in the list it puts the list without the
\* targets, once, and nothing else.
C27_RemoveAllOrNothing ==
    \A c \in Callers :
        LET e == edit[c]
            missing == Range(e.userid) \ IdsOf(e.fetched)
        IN (e.op = "remove" /\ e.pc = "done" /\ e.got /\ Alone(c)) =>
              IF missing # {}
              THEN /\ e.out = RaiseOn("AEException: Collaborator(s) not found", missing)
                   /\ e.puts = <<>>
                   /\ collabs.list = e.fetched
              ELSE /\ e.out.kind = "ret" =>
                        /\ e.puts = <<Without(e.fetched, e.userid)>>
                        /\ collabs.list = Without(e.fetched, e.userid)
                   /\ e.out.kind = "raise" =>
                        /\ e.out = RequestFailed
                        /\ e.puts = <<>>
                        /\ collabs.list = e.fetched

\* C27 witness: one of two targets of a remove was a collaborator and the
\* other was not; the remove raised and the collaborator is still listed
C27_Witness ==
    \E c \in Callers :
        LET e == edit[c]
        IN /\ e.op = "remove" /\ e.pc = "done" /\ Alone(c)
           /\ e.userid = <<1, 2>>
           /\ IdsOf(e.fetched) = {1}
           /\ e.out.kind = "raise" /\ e.out.body = {2}
           /\ IdsOf(collabs.list) = {1}

\* C28: the edits are read-modify-write over the list each caller fetched:
\* every list a caller puts is worked out from its own fetch, whatever other
\* callers have put since, and a PUT replaces the platform's list whole.
C28_PutsFromOwnFetch ==
    \A c \in Callers :
        LET e == edit[c]
        IN /\ (e.pc = "done" /\ e.out.kind = "ret") => LastPut(e) = FromFetched(e)
           /\ (e.op = "add" /\ Len(e.puts) = 2) => e.puts[1] = Without(e.fetched, e.userid)
           /\ (e.pc = "final" /\ e.puts # <<>>) => e.puts = <<Without(e.fetched, e.userid)>>

\* One caller's add of an id returned, another caller that was not given
\* the id put its final list afterwards, and the id is off the list
LostUpdate ==
    \E a, b \in Callers :
        /\ a # b
        /\ edit[a].pc = "done" /\ edit[a].out.kind = "ret" /\ edit[a].op = "add"
        /\ edit[b].pc = "done" /\ edit[b].out.kind = "ret"
        /\ \E u \in Range(edit[a].userid) :
              /\ u \notin Range(edit[b].userid)
              /\ u \in IdsOf(LastPut(edit[a]))
              /\ u \notin IdsOf(collabs.list)

\* The third party read the list between the two PUTs of an add, and a
\* collaborator the add was replacing was missing from what it read
SawIntermediate ==
    /\ watch.read
    /\ \E c \in watch.during :
          LET e == edit[c]
          IN /\ e.op = "add" /\ e.puts # <<>>
             /\ watch.list = e.puts[1]
             /\ \E u \in Range(e.userid) :
                   u \in IdsOf(e.fetched) /\ u \notin IdsOf(watch.list)

\* C28 witness: a lost update, in a run in which the third party also saw
\* the intermediate list
C28_Witness == LostUpdate /\ SawIntermediate

-----------------------------------------------------------------------------
(* C29: listings and the collaborator fetch *)

\* C29: a listing call sends a request for the collaborators of a record
\* only when the program called it and asked for collaborators; the listing
\* fetched to resolve an identifier sends none.
C29_CollaboratorsOptIn ==
    (\E i \in DOMAIN lst.log : lst.log[i][1] = "collaborators") =>
        lst.by = "caller" /\ lst.collaborators = "yes"

-----------------------------------------------------------------------------
(* C31: the column order of a normalized response *)

\* C31: normalizing with a column list gives every column of the data once;
\* the columns the list names come first, in the order of the list, and the
\* others follow in the order of the data, whatever the order of the data;
\* names of the list that the data does not have are left out, except that a
\* table with no rows has exactly the columns of the list.
C31_CanonicalFirst ==
    (norm.done /\ norm.out.kind = "ret" /\ norm.columns # <<>>) =>
        LET out == norm.out.body
            data == UNION { Range(norm.response.rows[i]) : i \in DOMAIN norm.response.rows }
            canon == Range(norm.columns)
            \* the first row that holds a column, and the column's place in it
            first(c) == Min({i \in DOMAIN norm.response.rows : c \in Range(norm.response.rows[i])})
            place(c) == Pos(norm.response.rows[first(c)], c)
        IN IF Len(norm.response.rows) = 0
           THEN out = norm.columns
           ELSE /\ Range(out) = data
                /\ \A i, j \in DOMAIN out : i < j =>
                     /\ out[i] # out[j]
                     /\ out[j] \in canon => out[i] \in canon
                     /\ (out[i] \in canon /\ out[j] \in canon) =>
                           Pos(norm.columns, out[i]) < Pos(norm.columns, out[j])
                     /\ (out[i] \notin canon /\ out[j] \notin canon) =>
                           \/ first(out[i]) < first(out[j])
                           \/ first(out[i]) = first(out[j]) /\ place(out[i]) < place(out[j])

\* C31 witness: the data had a column the list does not name ahead of two
\* that it names in the other order, and lacked one name of the list.
C31_Witness ==
    /\ norm.done
    /\ norm.response.kind = "list"
    /\ norm.response.rows = << <<"owner", "name", "id">> >>
    /\ norm.columns = <<"id", "url", "name">>
    /\ norm.out = Ret("frame", <<"id", "name", "owner">>)

-----------------------------------------------------------------------------
(* C32: one join for each record *)

\* The keys of a record that the project join writes
Joined(rec) ==
    [k \in DOMAIN rec \cap {"name", "session_name", "project_name", "project_id"} |-> rec[k]]

\* C32: the record session_info or deployment_info returns has the name,
\* the session_name or project_name and the project_id of the entry of the
\* same entity in session_list or deployment_list: the project join was
\* applied to it once.
C32_JoinedOnce ==
    (info.op = "info" /\ info.out.kind = "ret" /\ info.out.val = "record") =>
        \E i \in DOMAIN EntityList(platform) :
            /\ EntityList(platform)[i]["id"] = info.id
            /\ Joined(info.out.body) = Joined(EntityList(platform)[i])

-----------------------------------------------------------------------------
(* C33: the page size of the action poller *)

\* C33: the first fetch of the poller asks for a page of one entry; each
\* later fetch asks for one entry more than the fetch before it when that
\* fetch did not show the awaited action, and for as many when it did; the
\* size asked for never goes down.
C33_PageSizeGrowsOnMiss ==
    [][Len(poll'.sizes) = Len(poll.sizes) + 1 =>
         LET asked == poll'.sizes[Len(poll'.sizes)]
         IN IF poll.sizes = <<>>
            THEN asked = 1
            ELSE LET before == poll.sizes[Len(poll.sizes)]
                 IN /\ asked >= before
                    /\ poll.seen = "missing" => asked = before + 1
                    /\ poll.seen # "missing" => asked = before]_vars

\* C33 witness: the first fetch missed the action, the second showed it
\* still pending, and the third asked for two entries again.
C33_Witness ==
    /\ Len(poll.sizes) >= 3
    /\ poll.sizes[1] = 1 /\ poll.sizes[2] = 2 /\ poll.sizes[3] = 2

-----------------------------------------------------------------------------
(* C34: resolution by id or name *)

\* The entries of the listing the pattern matches by id or name, and by id
MatchedAny == {i \in DOMAIN listing.records :
                 \/ fnmatch(listing.records[i].name, res.ident)
                 \/ listing.records[i].id # <<>> /\ fnmatch(listing.records[i].id, res.ident)}
MatchedId == {i \in MatchedAny :
                 listing.records[i].id # <<>> /\ fnmatch(listing.records[i].id, res.ident)}

\* C34: _id_or_name returns the one record the pattern matches; when it
\* matches several but one only by id, it returns that one; otherwise
\* several matches raise the 'Multiple ... found' error and none the 'No
\* ... found' error, and with quiet both return nothing without raising.
C34_IdBeforeName ==
    res # NoRes =>
        LET out == res.out
            one == IF Cardinality(MatchedAny) = 1 THEN MatchedAny
                   ELSE IF Cardinality(MatchedAny) > 1 /\ Cardinality(MatchedId) = 1
                   THEN MatchedId ELSE {}
        IN IF one # {}
           THEN /\ out.kind = "ret" /\ ~out.none
                /\ \A i \in one : out.rec = listing.records[i]
           ELSE IF res.quiet
           THEN out.kind = "ret" /\ out.none
           ELSE /\ out.kind = "raise" /\ out.exc = "ValueError"
                /\ out.msg.pfx = IF MatchedAny = {} THEN "No" ELSE "Multiple"

-----------------------------------------------------------------------------
(* C35: the type of the id *)

\* The id given is of a type the resolution of res.type does not take
WrongIdType ==
    /\ res.ident.id # <<>>
    /\ IdType(res.ident.id) # "projects"
    /\ IdType(res.ident.id) #
          (IF res.type \in {"jobs", "runs"} THEN "deployments" ELSE res.type)

\* C35: an id whose prefix is of a type that is neither 'projects' nor the
\* type resolved (the deployments type for jobs and runs) is rejected with
\* an error before the listing is fetched, and no other id is rejected so;
\* an id of the projects type given for an entity that is not a project
\* does not filter the listing by id.
C35_IdTypeChecked ==
    res.type # "" =>
        /\ WrongIdType =>
              /\ res.out.kind = "raise" /\ res.out.exc = "ValueError: ID type"
              /\ ~res.out.fetched
        /\ ~WrongIdType => res.out.fetched /\ res.out.exc # "ValueError: ID type"
        /\ (res.type # "projects" /\ res.ident.id # <<>>
               /\ IdType(res.ident.id) = "projects") =>
              \A i \in DOMAIN listing.records :
                 LET R == listing.records[i]
                 IN (\E j \in DOMAIN res.out.matches : res.out.matches[j] = R) <=>
                      /\ fnmatch(R.owner, IF res.ident.owner = <<>> THEN Star ELSE res.ident.owner)
                      /\ fnmatch(R.name, IF res.ident.name = <<>> THEN Star ELSE res.ident.name)
                      /\ fnmatch(ProjectId(R), IF res.ident.pid = <<>> THEN Star ELSE res.ident.pid)

\* C35 witness: a session was asked for by the id of a deployment while the
\* platform listed sessions, and the call was rejected with nothing fetched.
C35_Witness ==
    /\ res.type = "sessions"
    /\ res.ident.id = Str("a2", "1")
    /\ Len(listing.records) > 0
    /\ res.out.kind = "raise" /\ ~res.out.fetched

-----------------------------------------------------------------------------
(* C36: the defaults of the REPL *)

\* C36: in REPL mode, the options a command gets are the stashed defaults
\* with the options given on that command in their place, and the stored
\* defaults are after the call what stash_defaults stored: an option given
\* on one command is not a default of the next.
C36_DefaultsKept ==
    (cli.has_defaults /\ cli.op = "get_options") =>
        /\ \A p \in DOMAIN cli.given : cli.returned[p] = cli.given[p]
        /\ \A p \in DOMAIN cli.stashed \ DOMAIN cli.given :
              cli.returned[p] = cli.stashed[p]
        /\ DOMAIN cli.returned = DOMAIN cli.stashed \cup DOMAIN cli.given
        /\ cli.defaults = cli.stashed

-----------------------------------------------------------------------------
(* C37, C38: disconnecting, and the header of a connected session *)

\* C37: disconnect() starts no authentication: within the call there is no
\* authorize(), no prompt for a password and no login sent, whether the
\* session was connected or not.
C37_DisconnectNoLogin ==
    last.op = "disconnect" =>
        /\ Evs(last.who, "authorize") = {}
        /\ Evs(last.who, "prompt") = {}
        /\ Evs(last.who, "connect") = {}

\* C38: between calls, a session that is connected sends the header of the
\* credential it holds: an admin session 'Bearer <its access token>', a
\* user session the value of its _xsrf cookie.
C38_HeaderOfCredential ==
    \A who \in Who :
        (sess[who].alive /\ sess[who].connected) => HeaderCurrent(sess[who])

-----------------------------------------------------------------------------
(* C39: restarting a deployment *)

\* C39: a restart of a deployment that has collaborators, with every
\* request answered and the deployment accepted, does not fail before its
\* wait, and the new deployment then has the collaborators the old one had.
C39_RestartKeepsCollaborators ==
    (rst.pc # "idle" /\ rst.old.collabs # <<>> /\ rst.new.exists) =>
        /\ rst.new.collabs = rst.old.collabs
        /\ rst.out.val # "AttributeError"

-----------------------------------------------------------------------------
(* C40: the arguments of job_create *)

\* The arguments job_create was called with that lines 825-828 refuse
CleanupMisused == jc.cleanup /\ (jc.schedule \/ ~jc.run \/ ~jc.wait)

\* C40: job_create with cleanup and a schedule, or with cleanup and not both
\* run and wait, ends with a ValueError about its arguments, having
\* resolved nothing and sent no request, and the jobs and runs of the
\* platform are as they were.
C40_CleanupRefusedFirst ==
    (jc.pc # "idle" /\ CleanupMisused) =>
        /\ jc.pc = "done"
        /\ jc.out.kind = "raise"
        /\ jc.out.val \in {"ValueError: cleanup with a scheduled job",
                            "ValueError: cleanup without run and wait"}
        /\ jc.log = <<>>
        /\ ~jc.created /\ ~jc.fetched
        /\ jobs = jc.jobs0 /\ runs = jc.runs0

\* job_create was called with cleanup, run, wait and a schedule while the
\* platform held a job, and was refused
C40_Witness ==
    /\ jc.pc = "done" /\ jc.cleanup /\ jc.schedule /\ jc.run /\ jc.wait
    /\ jc.out.kind = "raise"
    /\ jobs # {}

====
